---- MODULE Spec2Model ----
(***************************************************************************)
(* Model of the tvmux refresh pipeline: source fetchers, normalizer,       *)
(* health prober, cache partitioner/writer (api/refresh-data.js,           *)
(* api/_lib/data-processor.js, api/_lib/cache.js, api/_lib/httpClient.js). *)
(*                                                                         *)
(* Strings that the code takes apart (source names, native ids, country    *)
(* names) are sequences of one-character strings; other text fields are    *)
(* plain strings, "" standing for a missing (falsy) field.                 *)
(***************************************************************************)
EXTENDS Integers, Sequences, FiniteSets, TLC

(* ------------------------------------------------------------------ *)
(* Bounds                                                             *)
(* ------------------------------------------------------------------ *)
\* The largest number of custom playlist sources in a configuration.
MaxSources == 1

(* ------------------------------------------------------------------ *)
(* JavaScript string helpers                                          *)
(* ------------------------------------------------------------------ *)

\* The value `undefined` (a missing property); distinct from every string.
Undefined == <<"undefined">>

\* JavaScript truthiness of a string-or-undefined value.
Truthy(v) == v # Undefined /\ v # <<>>

\* "iptv-org", the source name of the directory fetcher.
IPTV_ORG == <<"i", "p", "t", "v", "-", "o", "r", "g">>

\* The literal prefix of every channel id.
ID_PREFIX == <<"t", "v", "m", "u", "x", "_">>

UpperChars == <<"A", "B", "C", "D", "E", "F", "G", "H", "I", "J", "K", "L", "M",
                "N", "O", "P", "Q", "R", "S", "T", "U", "V", "W", "X", "Y", "Z">>
LowerChars == <<"a", "b", "c", "d", "e", "f", "g", "h", "i", "j", "k", "l", "m",
                "n", "o", "p", "q", "r", "s", "t", "u", "v", "w", "x", "y", "z">>

\* String.prototype.toLowerCase, one character.
toLowerCaseChar(c) ==
  IF \E i \in 1..26 : UpperChars[i] = c
    THEN LowerChars[CHOOSE i \in 1..26 : UpperChars[i] = c]
    ELSE c

toLowerCase(s) == [i \in 1..Len(s) |-> toLowerCaseChar(s[i])]

\* The regular expression class \s on the characters the model uses.
IsWhitespace(c) == c \in {" ", "\t", "\n"}

\* s.replace(/\s/g, "-")
replaceWhitespace(s) == [i \in 1..Len(s) |-> IF IsWhitespace(s[i]) THEN "-" ELSE s[i]]

Digits == <<"0", "1", "2", "3", "4", "5", "6", "7", "8", "9">>

\* Number-to-string conversion of a template literal, for a natural number.
RECURSIVE NumToStr(_)
NumToStr(n) == IF n < 10 THEN <<Digits[n + 1]>>
               ELSE NumToStr(n \div 10) \o <<Digits[(n % 10) + 1]>>

\* String conversion of a template literal, for a string-or-undefined value.
TemplateStr(v) ==
  IF v = Undefined THEN <<"u", "n", "d", "e", "f", "i", "n", "e", "d">> ELSE v

(* ------------------------------------------------------------------ *)
(* Normalizer (api/_lib/data-processor.js)                            *)
(* ------------------------------------------------------------------ *)

DEFAULT_LOGO == "logo-big.png"

\* a || b on plain strings ("" is the falsy one)
Or(a, b) == IF a # "" THEN a ELSE b

\* A stream as the fetchers build it: no health property yet ("none").
Stream(url) == [url |-> url, health |-> "none"]

\* Variant: the id as the older copy api/lib/data-processor.js builds it,
\* without the literal prefix.
normalizeChannelId_unprefixed(channel, sourceName, index) ==
  replaceWhitespace(toLowerCase(sourceName)) \o <<"_">>
    \o (IF Truthy(channel.id) THEN channel.id ELSE index)

\* normalizeChannel(channel, sourceName, index).  `index` is passed already
\* converted by the template literal (a number on the playlist path, the
\* native id on the directory path).
normalizeChannelId(channel, sourceName, index) ==
  ID_PREFIX \o replaceWhitespace(toLowerCase(sourceName)) \o <<"_">>
            \o (IF Truthy(channel.id) THEN channel.id ELSE index)

normalizeChannel(channel, sourceName, index) ==
  LET name == Or(channel.name, Or(channel.tvgName, "Unnamed Channel"))
      logo == Or(channel.tvgLogo, Or(channel.logo, DEFAULT_LOGO))
      streams == IF channel.hasStreams THEN channel.streams
                 ELSE <<Stream(channel.url)>>
  IN [id |-> normalizeChannelId(channel, sourceName, index),
      name |-> name,
      logo |-> logo,
      source |-> sourceName,
      country |-> channel.country,
      categories |-> IF channel.hasCategories THEN channel.categories
                     ELSE <<Or(channel.groupTitle, "General")>>,
      streams |-> SelectSeq(streams, LAMBDA s : s.url # "")]

\* An item as iptv-playlist-parser returns it (no id, no streams list).
M3uItem(name, tvgName, tvgLogo, groupTitle, url) ==
  [id |-> Undefined, name |-> name, tvgName |-> tvgName, tvgLogo |-> tvgLogo,
   logo |-> "", groupTitle |-> groupTitle, country |-> Undefined,
   hasCategories |-> FALSE, categories |-> <<>>,
   hasStreams |-> FALSE, streams |-> <<>>, url |-> url]

\* A settled fetcher promise; `reason` is the message of the error thrown.
\* The messages of request errors and of playlist errors are not told
\* apart: nothing reads them but the text of the alert.
RejectedWith(reason) == [status |-> "rejected", value |-> <<>>, reason |-> reason]
Rejected == RejectedWith("error")
Fulfilled(v) == [status |-> "fulfilled", value |-> v, reason |-> ""]

\* processCustomM3uSource(source).  `doc` is the outcome of the GET and of
\* parser.parse: fetched = FALSE for a request error, isText = FALSE for an
\* empty or non-string body, parsed = FALSE when the parser gives no items.
processCustomM3uSource(source, doc) ==
  IF ~doc.fetched THEN Rejected
  ELSE IF ~doc.isText THEN Rejected
  ELSE IF ~doc.parsed THEN Rejected
  ELSE LET mapped == [i \in 1..Len(doc.items) |->
                        normalizeChannel(doc.items[i], source.name, NumToStr(i - 1))]
       IN Fulfilled(SelectSeq(mapped, LAMBDA c : Len(c.streams) > 0))

\* new Map(list.map(e => [key, value])).get(k): the last entry wins.
MapHas(list, k) == \E i \in 1..Len(list) : list[i].key = k
MapGet(list, k) ==
  list[CHOOSE i \in 1..Len(list) :
         /\ list[i].key = k
         /\ \A j \in (i + 1)..Len(list) : list[j].key # k].value

\* Variant: every entry of the stream list, whatever its channel.
streamsByChannel_all(streams, id) ==
  [i \in 1..Len(streams) |-> Stream(streams[i].url)]

\* streamsByChannel.get(id) || []
streamsByChannel(streams, id) ==
  LET mine == SelectSeq(streams, LAMBDA s : s.channel = id)
  IN [i \in 1..Len(mine) |-> Stream(mine[i].url)]

\* The enriched channel handed to normalizeChannel on the directory path.
enrichedChannel(channel, data) ==
  [id |-> channel.id, name |-> channel.name, tvgName |-> "", tvgLogo |-> "",
   logo |-> channel.logo, groupTitle |-> "",
   country |-> IF MapHas(data.countries, channel.country)
                 THEN MapGet(data.countries, channel.country)
                 ELSE IF Truthy(channel.country) THEN channel.country
                      ELSE <<"U", "n", "k", "n", "o", "w", "n">>,
   hasCategories |-> TRUE,
   categories |-> [i \in 1..Len(channel.categories) |->
                     IF MapHas(data.categories, channel.categories[i])
                       THEN MapGet(data.categories, channel.categories[i])
                       ELSE channel.categories[i]],
   hasStreams |-> TRUE,
   streams |-> streamsByChannel(data.streams, channel.id),
   url |-> ""]

\* Variant: no validation of what was received (as in api/lib).
isNonEmptyArray_unchecked(isArray, list) == TRUE

\* Array.isArray(list) && list.length !== 0
isNonEmptyArray(isArray, list) == isArray /\ Len(list) # 0

\* The five requests of the directory fetcher.
DirectoryRequests == {"channels", "streams", "countries", "categories", "blocklist"}

\* Variant: only the channel list and the stream list are required.
promiseAll_required(responses) ==
  responses["channels"] = "fulfilled" /\ responses["streams"] = "fulfilled"

\* await Promise.all([...five gets...]): fulfilled when every request is.
promiseAll(responses) == \A r \in DOMAIN responses : responses[r] = "fulfilled"

\* The five bodies as the fetcher has them after the await.
received(data, responses) == [data EXCEPT !.fetched = promiseAll(responses)]

\* The five requests settled alike.
AllResponses(ok) == [r \in DirectoryRequests |-> IF ok THEN "fulfilled" ELSE "rejected"]

NotRequested == [r \in DirectoryRequests |-> "pending"]

\* processIptvOrgSource().  `data` is the outcome of the five requests:
\* fetched = FALSE when one of them failed, otherwise the five bodies.
processIptvOrgSource(data) ==
  IF ~data.fetched THEN Rejected
  ELSE IF ~isNonEmptyArray(data.channelsIsArray, data.channels)
    THEN RejectedWith("No channels received from iptv-org API")
  ELSE IF ~isNonEmptyArray(data.streamsIsArray, data.streams)
    THEN RejectedWith("No streams received from iptv-org API")
  ELSE LET kept == SelectSeq(data.channels, LAMBDA c :
                     /\ ~\E i \in 1..Len(data.blocklist) : data.blocklist[i] = c.id
                     /\ Len(streamsByChannel(data.streams, c.id)) > 0)
           processedChannels == [i \in 1..Len(kept) |->
                     normalizeChannel(enrichedChannel(kept[i], data), IPTV_ORG,
                                      TemplateStr(kept[i].id))]
       IN IF Len(processedChannels) = 0
            THEN RejectedWith("No valid channels after processing iptv-org data")
          ELSE Fulfilled(processedChannels)

(* ------------------------------------------------------------------ *)
(* Array.prototype.sort() on strings: order by UTF-16 code units      *)
(* ------------------------------------------------------------------ *)

\* The characters of the model in ascending code-unit order.
CharOrder == <<"\t", "\n", " ", "-">> \o Digits \o UpperChars \o <<"_">> \o LowerChars

CharCode(c) == CHOOSE i \in 1..Len(CharOrder) : CharOrder[i] = c

RECURSIVE StrLess(_, _)
StrLess(a, b) ==
  IF Len(b) = 0 THEN FALSE
  ELSE IF Len(a) = 0 THEN TRUE
  ELSE IF a[1] = b[1] THEN StrLess(Tail(a), Tail(b))
  ELSE CharCode(a[1]) < CharCode(b[1])

\* Variant: the names in descending order.
sort_descending(set) ==
  [i \in 1..Cardinality(set) |->
     CHOOSE x \in set : Cardinality({y \in set : StrLess(x, y)}) = i - 1]

\* Array.from(set).sort(): ascending by code units.
RECURSIVE sort(_)
sort(set) ==
  IF set = {} THEN <<>>
  ELSE LET min == CHOOSE x \in set : \A y \in set \ {x} : StrLess(x, y)
       IN <<min>> \o sort(set \ {min})

Range(seq) == {seq[i] : i \in 1..Len(seq)}

(* ------------------------------------------------------------------ *)
(* Cache (api/_lib/cache.js): one key-value store                     *)
(* ------------------------------------------------------------------ *)

MASTER_CHANNEL_LIST_KEY == [kind |-> "master_channel_list", name |-> <<>>]
AVAILABLE_CATALOGS_KEY == [kind |-> "available_catalogs", name |-> <<>>]
\* `channel_${id}` and `catalog_${name}`
ChannelKey(id) == [kind |-> "channel_", name |-> id]
CatalogKey(name) == [kind |-> "catalog_", name |-> name]

\* Stored values: a channel, a list of channels or a list of names, with
\* the expiry (seconds, 0 = none) the write gave the key.
NamesValue(ns, ex) == [channels |-> <<>>, names |-> ns, ex |-> ex]

DEFAULT_EX == 86400

\* Variant: the command drops every key it does not list.
KvWrite_replaceAll(store, items) == items

\* Variant: a list written to a key that exists is appended to the old one.
KvWrite_append(store, items) ==
  [k \in DOMAIN store \cup DOMAIN items |->
     IF k \notin DOMAIN items THEN store[k]
     ELSE IF k \notin DOMAIN store THEN items[k]
     ELSE [channels |-> store[k].channels \o items[k].channels,
           names |-> store[k].names \o items[k].names,
           ex |-> items[k].ex]]

\* kv.set / kv.mset applied to the store: the listed keys are replaced.
KvWrite(store, items) ==
  [k \in DOMAIN store \cup DOMAIN items |->
     IF k \in DOMAIN items THEN items[k] ELSE store[k]]

\* setInCache(key, value): the write it issues (always with the default expiry).
setInCache(key, channels, names) ==
  [items |-> [k \in {key} |-> [channels |-> channels, names |-> names, ex |-> DEFAULT_EX]],
   state |-> "pending"]

\* setMultipleInCache(items): nothing is written for an empty object.
setMultipleInCache(items) ==
  [items |-> items,
   state |-> IF DOMAIN items = {} THEN "fulfilled" ELSE "pending"]

(* ------------------------------------------------------------------ *)
(* Refresh handler (api/refresh-data.js), pure parts                  *)
(* ------------------------------------------------------------------ *)

RECURSIVE Concat(_)
Concat(seqs) == IF Len(seqs) = 0 THEN <<>> ELSE Head(seqs) \o Concat(Tail(seqs))

\* sourceName of results[index] (index 1 is the directory source).
sourceNameOf(srcs, index) == IF index = 1 THEN IPTV_ORG ELSE srcs[index - 1].name

\* Variant: only the directory result is aggregated.
aggregate_directoryOnly(res) ==
  IF Len(res) > 0 /\ res[1].status = "fulfilled" THEN res[1].value ELSE <<>>

\* The channels pushed onto aggregatedChannelList by results.forEach.
aggregate(res) ==
  Concat([i \in 1..Len(res) |->
            IF res[i].status = "fulfilled" THEN res[i].value ELSE <<>>])

\* The names added to availableCatalogs by results.forEach.
catalogsOf(res, srcs) ==
  UNION {IF res[i].status # "fulfilled" THEN {}
         ELSE IF i = 1
           THEN {res[i].value[j].country : j \in
                   {j \in 1..Len(res[i].value) : Truthy(res[i].value[j].country)}}
           ELSE {sourceNameOf(srcs, i)} : i \in 1..Len(res)}

\* The sendAlertToWebhook calls made by results.forEach, in order.
failureAlerts(res, srcs) ==
  LET failed == SelectSeq([i \in 1..Len(res) |-> i],
                          LAMBDA i : res[i].status # "fulfilled")
  IN [k \in 1..Len(failed) |-> sourceNameOf(srcs, failed[k])]

\* channel.source === "iptv-org" ? channel.country?.name : channel.source
catalogName(channel) ==
  IF channel.source = IPTV_ORG THEN channel.country ELSE channel.source

\* channelsByCatalog[name] (the empty list stands for a missing property;
\* catalog names are taken not to be names of Object.prototype properties).
channelsByCatalog(master, name) ==
  SelectSeq(master, LAMBDA c : Truthy(catalogName(c)) /\ catalogName(c) = name)

\* The property names of channelsByCatalog.
catalogKeys(master) ==
  {catalogName(master[i]) : i \in {i \in 1..Len(master) : Truthy(catalogName(master[i]))}}

\* Variant: the index is written without the filter.
catalogIndex_unfiltered(sortedCatalogs, master) == sortedCatalogs

\* sortedCatalogs.filter((c) => channelsByCatalog[c])
catalogIndex(sortedCatalogs, master) ==
  SelectSeq(sortedCatalogs, LAMBDA c : c \in catalogKeys(master))

\* individualChannelsToCache: a later channel overwrites an earlier one
\* of the same id.
individualChannelsToCache(master) ==
  [k \in {ChannelKey(master[i].id) : i \in 1..Len(master)} |->
     LET last == CHOOSE i \in 1..Len(master) :
                   /\ ChannelKey(master[i].id) = k
                   /\ \A j \in (i + 1)..Len(master) : ChannelKey(master[j].id) # k
     IN [channels |-> <<master[last]>>, names |-> <<>>, ex |-> 0]]

\* Variant: the unfiltered list is written (as the earlier handlers did).
masterToWrite_unfiltered(aggregated, master) == aggregated

\* The list written under the master key.
masterToWrite(aggregated, master) == master

\* cachePromises: the writes issued by the try block.  All of them are
\* issued before the first await, so the catalog writes are listed by name
\* rather than in property order.
cachePromises(aggregated, master, catalogs) ==
  LET sortedCatalogs == sort(catalogs)
      names == sort(catalogKeys(master))
  IN <<setMultipleInCache(individualChannelsToCache(master))>>
     \o [i \in 1..Len(names) |->
           setInCache(CatalogKey(names[i]), channelsByCatalog(master, names[i]), <<>>)]
     \o <<setInCache(MASTER_CHANNEL_LIST_KEY, masterToWrite(aggregated, master), <<>>),
          setInCache(AVAILABLE_CATALOGS_KEY, <<>>, catalogIndex(sortedCatalogs, master))>>

(* ------------------------------------------------------------------ *)
(* Health prober of the refresh handler: probeAndFilterStreamHealth   *)
(* (imported by the handler; modelled from the design, section 4.3)   *)
(* ------------------------------------------------------------------ *)

BATCH_SIZE == 2

\* What a probe can come back with.
StatusOutcome(n) == [kind |-> "status", status |-> n]
TimeoutOutcome == [kind |-> "timeout", status |-> 0]
ConnErrorOutcome == [kind |-> "connection error", status |-> 0]
ProbeOutcomes ==
  {StatusOutcome(n) : n \in {200, 204, 302, 399, 400, 404, 500}}
    \cup {TimeoutOutcome, ConnErrorOutcome}

\* Step 4: status in [200,400) => verified; anything else => failed.
classify(outcome) ==
  IF outcome.kind = "status" /\ outcome.status >= 200 /\ outcome.status < 400
    THEN "verified" ELSE "failed"

\* Step 1: the working list, as references (channel index, stream index).
flatten(channels) ==
  Concat([c \in 1..Len(channels) |->
            [k \in 1..Len(channels[c].streams) |-> [c |-> c, s |-> k]]])

\* Step 5: retain a channel iff one of its streams is verified.
hasVerified(channel) ==
  \E k \in 1..Len(channel.streams) : channel.streams[k].health = "verified"

filterVerified(channels) == SelectSeq(channels, hasVerified)

setHealth(channels, ref, health) ==
  [channels EXCEPT ![ref.c].streams[ref.s].health = health]

(* ------------------------------------------------------------------ *)
(* Environment: configurations and upstream documents                 *)
(* ------------------------------------------------------------------ *)

US == <<"U", "S">>
FR == <<"F", "R">>
MyList == <<"M", "y", " ", "L">>
MyListLower == <<"m", "y", " ", "l">>
MyListDashed == <<"m", "y", "-", "l">>
SourceNames == <<MyList, US, MyListDashed>>
Source(name) == [name |-> name]

\* CUSTOM_M3U_SOURCES_JSON: valid = FALSE for text JSON.parse rejects.
Configs ==
  {[valid |-> FALSE, sources |-> <<>>], [valid |-> TRUE, sources |-> <<>>]} \cup
  {[valid |-> TRUE, sources |-> [i \in 1..w[2] |-> Source(SourceNames[w[1] + i - 1])]] :
     w \in {w \in (1..Len(SourceNames)) \X (1..MaxSources) :
              w[1] + w[2] - 1 <= Len(SourceNames)}}

\* Configurations of two playlists whose names differ only in case or in
\* the kind of separator.
NormConfigs ==
  {[valid |-> TRUE, sources |-> <<Source(a), Source(b)>>] :
     a \in {MyList}, b \in {MyListLower, MyListDashed, US}}

Playlist(items) == [fetched |-> TRUE, isText |-> TRUE, parsed |-> TRUE, items |-> items]

PlaylistOne == Playlist(<<M3uItem("One", "", "", "News", "http://one")>>)
PlaylistTwo ==
  Playlist(<<M3uItem("", "", "", "", ""), M3uItem("", "Two", "two.png", "", "http://two")>>)

\* What the GET of a playlist and the parser can produce.
Playlists ==
  {[fetched |-> FALSE, isText |-> FALSE, parsed |-> FALSE, items |-> <<>>],
   [fetched |-> TRUE, isText |-> FALSE, parsed |-> FALSE, items |-> <<>>],
   Playlist(<<>>),
   PlaylistOne,
   PlaylistTwo}

DirChannel(id, name, country, categories) ==
  [id |-> id, name |-> name, logo |-> "", country |-> country, categories |-> categories]

Directory(channels, streams, blocklist) ==
  [fetched |-> TRUE, channelsIsArray |-> TRUE, streamsIsArray |-> TRUE,
   channels |-> channels, streams |-> streams,
   countries |-> <<[key |-> <<"u", "s">>, value |-> US], [key |-> <<"f", "r">>, value |-> FR]>>,
   categories |-> <<[key |-> "news", value |-> "News"]>>,
   blocklist |-> blocklist]

DirectoryTwoCountries ==
  Directory(<<DirChannel(<<"1">>, "D1", <<"u", "s">>, <<"news">>),
              DirChannel(<<"2">>, "D2", <<"f", "r">>, <<>>)>>,
            <<[channel |-> <<"1">>, url |-> "http://d1"],
              [channel |-> <<"2">>, url |-> "http://d2"]>>, <<>>)

DirectoryBlocked ==
  Directory(<<DirChannel(<<"1">>, "D1", <<"u", "s">>, <<"news">>),
              DirChannel(<<"2">>, "D2", <<"u", "s">>, <<>>),
              DirChannel(<<"3">>, "D3", <<"f", "r">>, <<>>)>>,
            <<[channel |-> <<"1">>, url |-> "http://d1"],
              [channel |-> <<"1">>, url |-> "http://d1b"],
              [channel |-> <<"3">>, url |-> "http://d3"],
              [channel |-> <<"2">>, url |-> ""]>>, <<<<"3">>>>)

\* What the five directory requests can produce.
Directories ==
  {[Directory(<<>>, <<>>, <<>>) EXCEPT !.fetched = FALSE],
   Directory(<<>>, <<[channel |-> <<"1">>, url |-> "http://d1"]>>, <<>>),
   Directory(<<DirChannel(<<"1">>, "D1", <<"u", "s">>, <<"news">>)>>, <<>>, <<>>),
   [DirectoryTwoCountries EXCEPT !.channelsIsArray = FALSE],
   [DirectoryTwoCountries EXCEPT !.streamsIsArray = FALSE],
   DirectoryTwoCountries,
   DirectoryBlocked}

(* ------------------------------------------------------------------ *)
(* State                                                              *)
(* ------------------------------------------------------------------ *)

VARIABLES
  pc,                    \* position of the handler
  directoryResponses,    \* how the five directory requests of this run settled
  sources,               \* the custom sources of this run
  results,               \* the fetcher promises, results[1] is the directory
  aggregatedChannelList,
  availableCatalogs,
  probeNext,             \* prober: first stream of the next batch
  probeInFlight,         \* prober: probes issued and not settled
  masterChannelList,
  writes,                \* cachePromises and the state of each write
  cache,                 \* the key-value store
  alerts,                \* sendAlertToWebhook calls of this run (source names)
  response,              \* the response sent by this run
  cacheAtStart,          \* the store when this run was triggered
  psPc,                  \* probeStreamHealth: position
  psChannels,            \* probeStreamHealth: its masterChannelList argument
  psSample,              \* probeStreamHealth: the sampled stream objects
  psPending,             \* probeStreamHealth: health checks not settled
  otherPc,               \* a second invocation: position
  otherMaster,           \* a second invocation: its masterChannelList
  otherWrites,           \* a second invocation: its cachePromises
  otherResponse,         \* a second invocation: its answer
  request,               \* what the invocation was called with (history)
  webhook,               \* the alert webhook: "unset", "up" or "down"
  deliveries,            \* what became of each alert, in order (history)
  now,                   \* the wall clock, in seconds
  writtenAt,             \* the store: when each key was last set
  previous,              \* the answer of the scheduled run before this one (history)
  addonInterfacePromise, \* read side: the interface built at module load
  manifestCache,         \* read side: the manifest kept in memory
  manifestCacheTime,     \* read side: when it was kept
  reply,                 \* read side: the last answer (history)
  deployed               \* read side: the form of api/index.js in service

vars == <<pc, sources, results, aggregatedChannelList, availableCatalogs,
          probeNext, probeInFlight, masterChannelList, writes, cache, alerts,
          response, cacheAtStart, psPc, psChannels, psSample, psPending,
          otherPc, otherMaster, otherWrites, otherResponse, request, webhook,
          deliveries, now, writtenAt, previous, addonInterfacePromise, manifestCache,
          manifestCacheTime, reply, deployed, directoryResponses>>

probeVars == <<psPc, psChannels, psSample, psPending>>

otherVars == <<otherPc, otherMaster, otherWrites, otherResponse>>

envVars == <<request, webhook, directoryResponses>>

clockVars == <<now, writtenAt, previous>>

readVars == <<addonInterfacePromise, manifestCache, manifestCacheTime, reply, deployed>>

handlerVars == <<pc, sources, results, aggregatedChannelList, availableCatalogs,
                 probeNext, probeInFlight, masterChannelList, writes, cache, alerts,
                 response, cacheAtStart>>

Pending == [status |-> "pending", value |-> <<>>, reason |-> ""]

\* Read side: the module is not loaded, nothing is kept, nothing was asked.
NotLoaded == [loaded |-> FALSE, availableCatalogs |-> <<>>, masterChannelList |-> <<>>]
Null == [set |-> FALSE, options |-> <<>>]
NoReply == [to |-> "none", by |-> "none", options |-> <<>>, channels |-> <<>>,
            stored |-> [names |-> <<>>, channels |-> <<>>]]

\* The history variable `request` before the invocation is recorded.
NoRequest ==
  [production |-> FALSE, authorized |-> FALSE, configValid |-> TRUE, recorded |-> FALSE]

EmptyStore == [k \in {} |-> NamesValue(<<>>, 0)]

\* The store after every write of `ws` has succeeded.
RECURSIVE ApplyAll(_, _)
ApplyAll(store, ws) ==
  IF Len(ws) = 0 THEN store ELSE ApplyAll(KvWrite(store, Head(ws).items), Tail(ws))

\* The output of an earlier invocation: both directory channels and the
\* playlist channel of MyList, every stream verified.
EarlierOutput ==
  LET list == processIptvOrgSource(DirectoryTwoCountries).value
                \o processCustomM3uSource(Source(MyList), PlaylistOne).value
  IN [c \in 1..Len(list) |->
        [list[c] EXCEPT !.streams =
           [k \in 1..Len(list[c].streams) |->
              [list[c].streams[k] EXCEPT !.health = "verified"]]]]

\* The stores an invocation can find: nothing published yet, or what an
\* earlier successful invocation published.
PriorStores ==
  {EmptyStore,
   ApplyAll(EmptyStore, cachePromises(EarlierOutput, EarlierOutput, {US, FR, MyList}))}

InitHandler ==
  /\ pc = "idle"
  /\ directoryResponses = NotRequested
  /\ sources = <<>>
  /\ results = <<>>
  /\ aggregatedChannelList = <<>>
  /\ availableCatalogs = {}
  /\ probeNext = 1
  /\ probeInFlight = {}
  /\ masterChannelList = <<>>
  /\ writes = <<>>
  /\ cache \in PriorStores
  /\ alerts = <<>>
  /\ response = "none"
  /\ cacheAtStart = cache
  /\ psPc = "idle"
  /\ psChannels = <<>>
  /\ psSample = <<>>
  /\ psPending = {}
  /\ otherPc = "absent"
  /\ otherMaster = <<>>
  /\ otherWrites = <<>>
  /\ otherResponse = "none"
  /\ request = NoRequest
  /\ deliveries = <<>>
  /\ now = 0
  /\ writtenAt = [k \in DOMAIN cache |-> 0]
  /\ previous = "none"
  /\ addonInterfacePromise = NotLoaded
  /\ manifestCache = Null
  /\ manifestCacheTime = 0
  /\ reply = NoReply

\* The alert webhook is configured and answers; the read side builds its
\* interface on every request.
Init ==
  /\ InitHandler
  /\ webhook = "up"
  /\ deployed = "getAddonInterface"

(* ------------------------------------------------------------------ *)
(* The refresh handler, step by step (api/refresh-data.js)            *)
(* ------------------------------------------------------------------ *)

\* Variant: the credential is never asked for.
mustReject_never(production, authorized) == FALSE

\* NODE_ENV === "production" && authorization !== `Bearer ${CRON_SECRET}`
mustReject(production, authorized) == production /\ ~authorized

\* Variant: no try/catch around JSON.parse, the error leaves the handler.
parseErrorEscapes_uncaught(config) == ~config.valid

\* try { sources.push(...JSON.parse(...)) } catch (e) { console.error(...) }:
\* the error of JSON.parse never leaves the try block.
parseErrorEscapes(config) == FALSE

\* The handler is invoked with a request.  Without the credential in
\* production it answers 401; otherwise it reads the configuration and
\* starts every fetcher.
TriggerRequest(configs, production, authorized) ==
  /\ pc = "idle"
  /\ cacheAtStart' = cache
  /\ alerts' = <<>>
  /\ aggregatedChannelList' = <<>>
  /\ availableCatalogs' = {}
  /\ masterChannelList' = <<>>
  /\ writes' = <<>>
  /\ probeNext' = 1
  /\ probeInFlight' = {}
  /\ \E config \in configs :
       IF mustReject(production, authorized)
         THEN /\ response' = "Unauthorized"
              /\ pc' = "done"
              /\ sources' = <<>>
              /\ results' = <<>>
         ELSE IF parseErrorEscapes(config)
         THEN /\ response' = "Error"
              /\ pc' = "done"
              /\ sources' = <<>>
              /\ results' = <<>>
         ELSE /\ response' = "none"
              /\ pc' = "fetching"
              /\ sources' = (IF config.valid THEN config.sources ELSE <<>>)
              /\ results' = [i \in 1..(1 + Len(sources')) |-> Pending]
  /\ UNCHANGED <<cache, probeVars, otherVars, webhook, deliveries, clockVars, readVars,
                 directoryResponses>>

\* An invocation with any request.
TriggerWith(configs) ==
  /\ \E production \in BOOLEAN, authorized \in BOOLEAN :
       TriggerRequest(configs, production, authorized)
  /\ UNCHANGED request

Trigger == TriggerWith(Configs)

\* The ways the five directory requests may settle when the upstream holds
\* `data`: each on its own, or all alike (as data.fetched tells).
responsesOf(data, apart) ==
  IF apart THEN [DirectoryRequests -> {"fulfilled", "rejected"}]
  ELSE {AllResponses(data.fetched)}

\* One fetcher settles.
FetchSettleVia(directories, playlists, apart) ==
  /\ pc = "fetching"
  /\ \E i \in 1..Len(results) :
       /\ results[i].status = "pending"
       /\ IF i = 1
            THEN \E data \in directories : \E responses \in responsesOf(data, apart) :
                   /\ directoryResponses' = responses
                   /\ results' = [results EXCEPT
                                    ![i] = processIptvOrgSource(received(data, responses))]
            ELSE \E doc \in playlists :
                   /\ results' = [results EXCEPT
                                    ![i] = processCustomM3uSource(sources[i - 1], doc)]
                   /\ UNCHANGED directoryResponses
  /\ UNCHANGED <<pc, sources, aggregatedChannelList, availableCatalogs,
                 probeNext, probeInFlight, masterChannelList, writes, cache,
                 alerts, response, cacheAtStart, probeVars, otherVars, request, webhook,
                 clockVars, readVars, deliveries>>

\* The five requests fail or succeed together.
FetchSettleFrom(directories, playlists) ==
  FetchSettleVia(directories, playlists, FALSE)

\* One fetcher settles, with anything the upstream can send.
FetchSettle == FetchSettleFrom(Directories, Playlists)

\* Variant: Promise.all, which is over at the first rejection.
allSettled_firstRejection(res) ==
  \/ \A i \in 1..Len(res) : res[i].status = "fulfilled"
  \/ \E i \in 1..Len(res) : res[i].status = "rejected"

\* Variant: Promise.race, which is over when the first fetcher settles.
allSettled_first(res) == \E i \in 1..Len(res) : res[i].status # "pending"

\* Variant: no catch around the post to the webhook.
sendAlertToWebhook_noCatch(hook) == IF hook = "down" THEN "rejected" ELSE "resolved"

\* sendAlertToWebhook: the state of the promise it returns.  It returns at
\* once when no webhook is configured and catches what the post throws.
sendAlertToWebhook(hook) == "resolved"

\* What becomes of an alert: not sent without a webhook URL, else posted.
deliver(hook) ==
  IF hook = "unset" THEN "skipped" ELSE IF hook = "up" THEN "delivered" ELSE "failed"

\* The answer after an awaited alert: the 500 Failed answer, or none when
\* the alert call rejects and the handler throws.
afterAlert(alertPromise) == IF alertPromise = "resolved" THEN "Failed" ELSE "Crashed"

\* Promise.allSettled(sourcePromises) has resolved.
allSettled(res) == \A i \in 1..Len(res) : res[i].status # "pending"

\* Promise.allSettled resolves: aggregate, alert the failures, start probing.
Aggregate ==
  /\ pc = "fetching"
  /\ allSettled(results)
  /\ aggregatedChannelList' = aggregate(results)
  /\ availableCatalogs' = catalogsOf(results, sources)
  /\ alerts' = alerts \o failureAlerts(results, sources)
  /\ deliveries' = deliveries \o
       [k \in 1..Len(failureAlerts(results, sources)) |-> deliver(webhook)]
  /\ probeNext' = 1
  /\ probeInFlight' = {}
  /\ pc' = "probing"
  /\ UNCHANGED <<sources, results, masterChannelList, writes, cache,
                 response, cacheAtStart, probeVars, otherVars, envVars, clockVars, readVars>>

\* Variant: one batch holds every stream that is left.
batchEnd_all(first, n) == n

\* The last stream of the batch that starts at stream `first` of n.
batchEnd(first, n) == IF first + BATCH_SIZE - 1 < n THEN first + BATCH_SIZE - 1 ELSE n

\* Prober: issue the probes of the next batch.
ProbeIssueBatch ==
  /\ pc = "probing"
  /\ probeInFlight = {}
  /\ probeNext <= Len(flatten(aggregatedChannelList))
  /\ LET n == Len(flatten(aggregatedChannelList))
         last == batchEnd(probeNext, n)
     IN /\ probeInFlight' = probeNext..last
        /\ probeNext' = last + 1
  /\ UNCHANGED <<pc, sources, results, aggregatedChannelList,
                 availableCatalogs, masterChannelList, writes, cache, alerts,
                 response, cacheAtStart, probeVars, otherVars, envVars, clockVars, readVars, deliveries>>

\* Prober: one probe settles and annotates its stream.
ProbeSettle ==
  /\ pc = "probing"
  /\ \E k \in probeInFlight, outcome \in ProbeOutcomes :
       /\ aggregatedChannelList' =
            setHealth(aggregatedChannelList, flatten(aggregatedChannelList)[k],
                      classify(outcome))
       /\ probeInFlight' = probeInFlight \ {k}
  /\ UNCHANGED <<pc, sources, results, availableCatalogs, probeNext,
                 masterChannelList, writes, cache, alerts, response, cacheAtStart,
                 probeVars, otherVars, envVars, clockVars, readVars, deliveries>>

\* Prober: all batches done, the filtered list is returned to the handler.
ProbeReturn ==
  /\ pc = "probing"
  /\ probeInFlight = {}
  /\ probeNext > Len(flatten(aggregatedChannelList))
  /\ masterChannelList' = filterVerified(aggregatedChannelList)
  /\ pc' = "filtered"
  /\ UNCHANGED <<sources, results, aggregatedChannelList,
                 availableCatalogs, probeNext, probeInFlight, writes, cache,
                 alerts, response, cacheAtStart, probeVars, otherVars, envVars, clockVars, readVars, deliveries>>

\* Variant: the emptiness test looks at the list before filtering.
isEmptyBeforeWrite_aggregated(aggregated, master) == Len(aggregated) = 0

\* masterChannelList.length === 0
isEmptyBeforeWrite(aggregated, master) == Len(master) = 0

\* The list is empty: alert, answer Failed, write nothing.
AbortEmpty ==
  /\ pc = "filtered"
  /\ isEmptyBeforeWrite(aggregatedChannelList, masterChannelList)
  /\ alerts' = Append(alerts, <<"Cache Worker">>)
  /\ deliveries' = Append(deliveries, deliver(webhook))
  /\ response' = afterAlert(sendAlertToWebhook(webhook))
  /\ pc' = "done"
  /\ UNCHANGED <<sources, results, aggregatedChannelList,
                 availableCatalogs, probeNext, probeInFlight, masterChannelList,
                 writes, cache, cacheAtStart, probeVars, otherVars, envVars, clockVars, readVars>>

\* The try block up to Promise.all: every write is issued.
IssueWrites ==
  /\ pc = "filtered"
  /\ ~isEmptyBeforeWrite(aggregatedChannelList, masterChannelList)
  /\ writes' = cachePromises(aggregatedChannelList, masterChannelList, availableCatalogs)
  /\ pc' = "writing"
  /\ UNCHANGED <<sources, results, aggregatedChannelList,
                 availableCatalogs, probeNext, probeInFlight, masterChannelList,
                 cache, alerts, response, cacheAtStart, probeVars, otherVars, envVars, clockVars, readVars, deliveries>>

\* Variant: the command is applied even when it reports a failure.
settleStore_always(store, write, ok) == KvWrite(store, write.items)

\* The store after kv.set / kv.mset settled: replaced keys, or no change
\* when the command failed.
settleStore(store, write, ok) == IF ok THEN KvWrite(store, write.items) ELSE store

\* The store's record of when each key was set: a command that succeeds
\* restarts the life of every key it lists.
settleTimes(times, write, ok, t) ==
  IF ok THEN [k \in DOMAIN times \cup DOMAIN write.items |->
                IF k \in DOMAIN write.items THEN t ELSE times[k]]
  ELSE times

\* One kv.set / kv.mset settles: applied to the store, or failed.
WriteSettle ==
  /\ pc \in {"writing", "done"}
  /\ \E w \in 1..Len(writes), ok \in BOOLEAN :
       /\ writes[w].state = "pending"
       /\ cache' = settleStore(cache, writes[w], ok)
       /\ writtenAt' = settleTimes(writtenAt, writes[w], ok, now)
       /\ writes' = [writes EXCEPT ![w].state = IF ok THEN "fulfilled" ELSE "rejected"]
  /\ UNCHANGED <<pc, sources, results, aggregatedChannelList,
                 availableCatalogs, probeNext, probeInFlight, masterChannelList,
                 alerts, response, cacheAtStart, probeVars, otherVars, envVars, now, previous, readVars, deliveries>>

\* Variant: Promise.allSettled instead of Promise.all.
allFulfilled_settled(ws) == \A w \in 1..Len(ws) : ws[w].state # "pending"

\* Promise.all(cachePromises) is fulfilled.
allFulfilled(ws) == \A w \in 1..Len(ws) : ws[w].state = "fulfilled"

\* Variant: no catch block, a rejected write is answered by nobody.
anyRejected_uncaught(ws) == FALSE

\* Promise.all(cachePromises) is rejected.
anyRejected(ws) == \E w \in 1..Len(ws) : ws[w].state = "rejected"

\* The body of the 200 answer: channels is masterChannelList.length,
\* catalogs is sortedCatalogs.length.
successBody(master, catalogs) ==
  [status |-> "Success", channels |-> Len(master), catalogs |-> Len(sort(catalogs))]

RespondSuccess ==
  /\ pc = "writing"
  /\ allFulfilled(writes)
  /\ response' = "Success"
  /\ pc' = "done"
  /\ UNCHANGED <<sources, results, aggregatedChannelList,
                 availableCatalogs, probeNext, probeInFlight, masterChannelList,
                 writes, cache, alerts, cacheAtStart, probeVars, otherVars, envVars, clockVars, readVars, deliveries>>

RespondFailed ==
  /\ pc = "writing"
  /\ anyRejected(writes)
  /\ alerts' = Append(alerts, <<"Cache Writer">>)
  /\ deliveries' = Append(deliveries, deliver(webhook))
  /\ response' = afterAlert(sendAlertToWebhook(webhook))
  /\ pc' = "done"
  /\ UNCHANGED <<sources, results, aggregatedChannelList,
                 availableCatalogs, probeNext, probeInFlight, masterChannelList,
                 writes, cache, cacheAtStart, probeVars, otherVars, envVars, clockVars, readVars>>

Next ==
  \/ Trigger
  \/ FetchSettle
  \/ Aggregate
  \/ ProbeIssueBatch
  \/ ProbeSettle
  \/ ProbeReturn
  \/ AbortEmpty
  \/ IssueWrites
  \/ WriteSettle
  \/ RespondSuccess
  \/ RespondFailed

Spec == Init /\ [][Next]_vars

(* ------------------------------------------------------------------ *)
(* probeStreamHealth (api/_lib/data-processor.js) with the hardened   *)
(* client (api/_lib/httpClient.js)                                    *)
(* ------------------------------------------------------------------ *)

DEFAULT_SAMPLE_SIZE == 50

\* validateStatus of httpClient: only 2xx resolves the request.
validateStatus(status) == status >= 200 /\ status < 300

\* httpClient.head(url, {timeout}): resolved with the response, or thrown
\* (no response in time, no connection, or a status validateStatus refuses;
\* redirects are not followed).
headResolves(outcome) == outcome.kind = "status" /\ validateStatus(outcome.status)

\* Variant: no catch around the request; a thrown request writes nothing.
healthCheck_noCatch(outcome) ==
  IF headResolves(outcome)
    THEN IF outcome.status >= 200 /\ outcome.status < 400
           THEN "verified" ELSE "unverified"
    ELSE "none"

\* The body of one health check: the health it writes on its stream object.
healthCheck(outcome) ==
  IF headResolves(outcome)
    THEN IF outcome.status >= 200 /\ outcome.status < 400
           THEN "verified" ELSE "unverified"
    ELSE "failed"

\* The promise of one health check once its request is over: the async
\* callback catches what the request throws, so it is always fulfilled.
checkPromise(outcome) == "fulfilled"

\* Promise.allSettled(healthChecks) once every check has settled: resolved
\* whatever the checks' promises are, so the function returns.
joinChecks(sample) == "returned"

\* allStreams: one new object per stream, `{ ...stream, channelName }`.
\* `origin` records which stream of the list the object was copied from,
\* `outcome` what its request met, `promise` the state of its health check.
allStreams(channels) ==
  Concat([c \in 1..Len(channels) |->
            [k \in 1..Len(channels[c].streams) |->
               [url |-> channels[c].streams[k].url,
                health |-> channels[c].streams[k].health,
                channelName |-> channels[c].name,
                origin |-> [c |-> c, s |-> k],
                outcome |-> TimeoutOutcome,
                promise |-> "pending"]]])

\* The lists probeStreamHealth is called with: what the fetchers returned.
ProbeInputs ==
  {processIptvOrgSource(DirectoryTwoCountries).value
     \o processCustomM3uSource(Source(MyList), PlaylistOne).value,
   processIptvOrgSource(DirectoryBlocked).value
     \o processCustomM3uSource(Source(MyList), PlaylistTwo).value}

InitProbe ==
  /\ Init
  /\ cache = EmptyStore

\* The call up to Promise.allSettled: copy, shuffle, sample, start the checks.
ProbeStart ==
  /\ psPc = "idle"
  /\ \E list \in ProbeInputs :
       /\ psChannels' = list
       /\ LET all == allStreams(list)
              size == IF DEFAULT_SAMPLE_SIZE < Len(all) THEN DEFAULT_SAMPLE_SIZE ELSE Len(all)
          IN \E perm \in Permutations(1..Len(all)) :
               /\ psSample' = [i \in 1..size |-> all[perm[i]]]
               /\ psPending' = 1..size
  /\ psPc' = "probing"
  /\ UNCHANGED <<handlerVars, otherVars, envVars, clockVars, readVars, deliveries>>

\* One health check settles and writes the health of its stream object.
HealthCheckSettle ==
  /\ psPc = "probing"
  /\ \E k \in psPending, outcome \in ProbeOutcomes :
       /\ psSample' = [psSample EXCEPT ![k].health = healthCheck(outcome),
                                       ![k].outcome = outcome,
                                       ![k].promise = checkPromise(outcome)]
       /\ psPending' = psPending \ {k}
  /\ UNCHANGED <<psPc, psChannels, handlerVars, otherVars, envVars, clockVars, readVars, deliveries>>

\* Promise.allSettled resolves and probeStreamHealth returns.
ProbeDone ==
  /\ psPc = "probing"
  /\ psPending = {}
  /\ psPc' = joinChecks(psSample)
  /\ UNCHANGED <<psChannels, psSample, psPending, handlerVars, otherVars, envVars, clockVars, readVars, deliveries>>

NextProbe == ProbeStart \/ HealthCheckSettle \/ ProbeDone

SpecProbe == InitProbe /\ [][NextProbe]_vars

\* The normalizer under configurations of two playlists.
TriggerNorm == TriggerWith(NormConfigs)

NextNorm == TriggerNorm \/ FetchSettle \/ Aggregate

SpecNorm == Init /\ [][NextNorm]_vars

(* ------------------------------------------------------------------ *)
(* Two invocations whose write phases overlap (api/refresh-data.js)   *)
(* ------------------------------------------------------------------ *)

\* The first invocation runs with the directory source alone.
OverlapConfigs == {[valid |-> TRUE, sources |-> <<>>]}

TriggerOverlap == TriggerWith(OverlapConfigs)

\* The filtered lists the second invocation can have arrived at: the first
\* directory channel alone, its stream verified.
OtherOutputs == {SubSeq(EarlierOutput, 1, 1)}

\* The second invocation reaches its try block while the first one is at
\* its own: it issues every write of its filtered list.  (Nothing stops it:
\* the handler takes no lock and reads no marker of a run in progress.)
OtherIssueWrites ==
  /\ otherPc = "absent"
  /\ pc = "filtered"
  /\ \E list \in OtherOutputs :
       /\ ~isEmptyBeforeWrite(list, list)
       /\ otherMaster' = list
       /\ otherWrites' = cachePromises(list, list, catalogKeys(list))
  /\ otherPc' = "writing"
  /\ UNCHANGED <<handlerVars, probeVars, otherResponse, envVars, clockVars, readVars, deliveries>>

\* One kv.set / kv.mset of the second invocation settles.
OtherWriteSettle ==
  /\ otherPc \in {"writing", "done"}
  /\ \E w \in 1..Len(otherWrites), ok \in BOOLEAN :
       /\ otherWrites[w].state = "pending"
       /\ cache' = settleStore(cache, otherWrites[w], ok)
       /\ writtenAt' = settleTimes(writtenAt, otherWrites[w], ok, now)
       /\ otherWrites' = [otherWrites EXCEPT
                            ![w].state = IF ok THEN "fulfilled" ELSE "rejected"]
  /\ UNCHANGED <<pc, sources, results, aggregatedChannelList,
                 availableCatalogs, probeNext, probeInFlight, masterChannelList,
                 writes, alerts, response, cacheAtStart, probeVars,
                 otherPc, otherMaster, otherResponse, envVars, now, previous, readVars, deliveries>>

OtherRespondSuccess ==
  /\ otherPc = "writing"
  /\ allFulfilled(otherWrites)
  /\ otherResponse' = "Success"
  /\ otherPc' = "done"
  /\ UNCHANGED <<handlerVars, probeVars, otherMaster, otherWrites, envVars, clockVars, readVars, deliveries>>

OtherRespondFailed ==
  /\ otherPc = "writing"
  /\ anyRejected(otherWrites)
  /\ alerts' = Append(alerts, <<"Cache Writer">>)
  /\ deliveries' = Append(deliveries, deliver(webhook))
  /\ otherResponse' = afterAlert(sendAlertToWebhook(webhook))
  /\ otherPc' = "done"
  /\ UNCHANGED <<pc, sources, results, aggregatedChannelList,
                 availableCatalogs, probeNext, probeInFlight, masterChannelList,
                 writes, cache, response, cacheAtStart, probeVars,
                 otherMaster, otherWrites, envVars, clockVars, readVars>>

NextOverlap ==
  \/ TriggerOverlap
  \/ FetchSettle
  \/ Aggregate
  \/ ProbeIssueBatch
  \/ ProbeSettle
  \/ ProbeReturn
  \/ AbortEmpty
  \/ IssueWrites
  \/ WriteSettle
  \/ RespondSuccess
  \/ RespondFailed
  \/ OtherIssueWrites
  \/ OtherWriteSettle
  \/ OtherRespondSuccess
  \/ OtherRespondFailed

\* Nothing has been published when the two invocations start.
InitOverlap ==
  /\ Init
  /\ cache = EmptyStore

SpecOverlap == InitOverlap /\ [][NextOverlap]_vars

(* ------------------------------------------------------------------ *)
(* One invocation with its request on record                          *)
(* ------------------------------------------------------------------ *)

\* One playlist is configured.
AuthConfigs == {[valid |-> TRUE, sources |-> <<Source(MyList)>>]}

\* An invocation whose request is kept in `request`: `production` is
\* NODE_ENV === "production", `authorized` is the authorization header
\* being `Bearer ${CRON_SECRET}`.
TriggerAuth ==
  \E production \in BOOLEAN, authorized \in BOOLEAN :
    /\ TriggerRequest(AuthConfigs, production, authorized)
    /\ request' = [production |-> production, authorized |-> authorized,
                   configValid |-> TRUE, recorded |-> TRUE]

NextAuth ==
  \/ TriggerAuth
  \/ FetchSettle
  \/ Aggregate
  \/ ProbeIssueBatch
  \/ ProbeSettle
  \/ ProbeReturn
  \/ AbortEmpty
  \/ IssueWrites
  \/ WriteSettle
  \/ RespondSuccess
  \/ RespondFailed

SpecAuth == Init /\ [][NextAuth]_vars

(* ------------------------------------------------------------------ *)
(* One invocation under every state of the alert webhook              *)
(* ------------------------------------------------------------------ *)

Webhooks == {"unset", "up", "down"}

\* ALERT_WEBHOOK_URL may be unset; a configured webhook may be up or down.
InitAlert ==
  /\ InitHandler
  /\ webhook \in Webhooks
  /\ deployed = "getAddonInterface"

TriggerAlert == TriggerWith(AuthConfigs)

\* A configured webhook goes down or comes back.
WebhookChanges ==
  /\ webhook \in {"up", "down"}
  /\ webhook' = IF webhook = "up" THEN "down" ELSE "up"
  /\ UNCHANGED <<handlerVars, probeVars, otherVars, request, deliveries, directoryResponses,
                 clockVars, readVars>>

NextAlert ==
  \/ TriggerAlert
  \/ FetchSettle
  \/ Aggregate
  \/ ProbeIssueBatch
  \/ ProbeSettle
  \/ ProbeReturn
  \/ AbortEmpty
  \/ IssueWrites
  \/ WriteSettle
  \/ RespondSuccess
  \/ RespondFailed
  \/ WebhookChanges

SpecAlert == InitAlert /\ [][NextAlert]_vars

(* ------------------------------------------------------------------ *)
(* One invocation with a playlist that bears the directory's name     *)
(* ------------------------------------------------------------------ *)

\* One playlist is configured, under the name "iptv-org" or another.
NameConfigs ==
  {[valid |-> TRUE, sources |-> <<Source(n)>>] : n \in {IPTV_ORG, MyList}}

TriggerNames == TriggerWith(NameConfigs)

NextNames ==
  \/ TriggerNames
  \/ FetchSettle
  \/ Aggregate
  \/ ProbeIssueBatch
  \/ ProbeSettle
  \/ ProbeReturn
  \/ AbortEmpty
  \/ IssueWrites
  \/ WriteSettle
  \/ RespondSuccess
  \/ RespondFailed

SpecNames == Init /\ [][NextNames]_vars

(* ------------------------------------------------------------------ *)
(* The read side (api/index.js and its earlier forms)                 *)
(* ------------------------------------------------------------------ *)

All == <<"A", "l", "l">>

\* A key the store still holds at time t: set without expiry, or set less
\* than `ex` seconds ago.
present(store, times, t, key) ==
  /\ key \in DOMAIN store
  /\ \/ store[key].ex = 0
     \/ key \in DOMAIN times /\ t < times[key] + store[key].ex

\* (await getFromCache(key)) || []: a missing key reads as null.
getFromCache(store, times, t, key) ==
  IF present(store, times, t, key) THEN store[key] ELSE NamesValue(<<>>, 0)

\* The genre options of getAddonInterface and buildAddon.
genreOptions(catalogs) == IF Len(catalogs) > 0 THEN <<All>> \o catalogs ELSE <<All>>

\* The catalog handler that filters the master list: c.source === genre ||
\* c.country?.name === genre.
masterListFilter(master, genre) ==
  IF genre # <<>> /\ genre # All
    THEN SelectSeq(master, LAMBDA c :
           c.source = genre \/ (Truthy(c.country) /\ c.country = genre))
    ELSE master

\* Variant: the master list whatever the genre.
fastPath_masterList(store, times, t, genre) ==
  getFromCache(store, times, t, MASTER_CHANNEL_LIST_KEY).channels

\* The catalog handler that reads the pre-partitioned key: `catalog_${genre}`
\* for a genre other than All, the master list otherwise.
fastPath(store, times, t, genre) ==
  IF genre # <<>> /\ genre # All
    THEN getFromCache(store, times, t, CatalogKey(genre)).channels
    ELSE getFromCache(store, times, t, MASTER_CHANNEL_LIST_KEY).channels

\* channelList.map(channel => ({id, type, name, poster, posterShape}))
metas(channels) ==
  [i \in 1..Len(channels) |->
     [id |-> channels[i].id, name |-> channels[i].name, poster |-> channels[i].logo]]

\* idPrefixes of the manifest: the ids the client sends meta and stream
\* requests for.
idPrefixes == {<<"t", "v", "m", "u", "x", "_">>}

startsWith(s, p) == Len(s) >= Len(p) /\ SubSeq(s, 1, Len(p)) = p

addressable(id) == \E p \in idPrefixes : startsWith(id, p)

\* The meta handler that looks the channel up under `channel_${id}`: the
\* meta of the stored channel, or null.
NoMeta == [found |-> FALSE, id |-> <<>>, name |-> "", poster |-> ""]

metaOf(channel) ==
  [found |-> TRUE, id |-> channel.id, name |-> channel.name, poster |-> channel.logo]

metaHandler(store, times, t, id) ==
  LET stored == getFromCache(store, times, t, ChannelKey(id)).channels
  IN IF Len(stored) = 0 THEN NoMeta ELSE metaOf(stored[1])

\* What the store holds for a reader at this moment.
Stored ==
  [names |-> getFromCache(cache, writtenAt, now, AVAILABLE_CATALOGS_KEY).names,
   channels |-> getFromCache(cache, writtenAt, now, MASTER_CHANNEL_LIST_KEY).channels]

\* The part of it a reply is about (history of a reply).
StoredNames == [names |-> Stored.names, channels |-> <<>>]
StoredChannels == [names |-> <<>>, channels |-> Stored.channels]

Resources == {"catalog", "meta", "stream"}

\* Web-time constants of the read side, in seconds (300000 ms).
MANIFEST_TTL == 300

\* The clock of the read side advances by TICK up to MaxNow.
TICK == MANIFEST_TTL \div 2
MaxNow == 300

\* Variant: the interface is built again for every request.
memoised_perRequest(built, fresh) == fresh

\* const addonInterfacePromise = buildAddon(): the interface a warm instance
\* serves is the one built when the module was loaded.
memoised(built, fresh) == built

\* A function instance starts: the module is loaded and buildAddon reads
\* the catalog index and the master list once.
ModuleLoad ==
  /\ deployed = "addonInterfacePromise"
  /\ ~addonInterfacePromise.loaded
  /\ addonInterfacePromise' =
       [loaded |-> TRUE,
        availableCatalogs |-> Stored.names,
        masterChannelList |-> Stored.channels]
  /\ UNCHANGED <<handlerVars, probeVars, otherVars, envVars, deliveries, clockVars,
                 manifestCache, manifestCacheTime, reply, deployed>>

\* getAddonInterface: a manifest request builds the interface from the
\* store.
ManifestPerRequest ==
  /\ deployed = "getAddonInterface"
  /\ reply' = [to |-> "manifest", by |-> "getAddonInterface",
               options |-> genreOptions(Stored.names),
               channels |-> <<>>, stored |-> StoredNames]
  /\ UNCHANGED <<handlerVars, probeVars, otherVars, envVars, deliveries, clockVars,
                 addonInterfacePromise, manifestCache, manifestCacheTime, deployed>>

\* getAddonInterface: the catalog, meta and stream handlers read the
\* master list when they are called.
DataPerRequest ==
  /\ deployed \in {"getAddonInterface", "getManifest"}
  /\ \E to \in Resources :
       reply' = [to |-> to, by |-> deployed, options |-> <<>>,
                 channels |-> Stored.channels, stored |-> StoredChannels]
  /\ UNCHANGED <<handlerVars, probeVars, otherVars, envVars, deliveries, clockVars,
                 addonInterfacePromise, manifestCache, manifestCacheTime, deployed>>

\* await addonInterfacePromise: a manifest request on a warm instance.
ManifestMemoised ==
  /\ deployed = "addonInterfacePromise"
  /\ addonInterfacePromise.loaded
  /\ reply' = [to |-> "manifest", by |-> "addonInterfacePromise",
               options |-> <<All>> \o memoised(addonInterfacePromise,
                                               [availableCatalogs |-> Stored.names]
                                              ).availableCatalogs,
               channels |-> <<>>, stored |-> StoredNames]
  /\ UNCHANGED <<handlerVars, probeVars, otherVars, envVars, deliveries, clockVars,
                 addonInterfacePromise, manifestCache, manifestCacheTime, deployed>>

\* await addonInterfacePromise: the handlers of a warm instance use the
\* master list buildAddon read.
DataMemoised ==
  /\ deployed = "addonInterfacePromise"
  /\ addonInterfacePromise.loaded
  /\ \E to \in Resources :
       reply' = [to |-> to, by |-> "addonInterfacePromise", options |-> <<>>,
                 channels |-> memoised(addonInterfacePromise,
                                       [masterChannelList |-> Stored.channels]
                                      ).masterChannelList,
                 stored |-> StoredChannels]
  /\ UNCHANGED <<handlerVars, probeVars, otherVars, envVars, deliveries, clockVars,
                 addonInterfacePromise, manifestCache, manifestCacheTime, deployed>>

\* getManifest: the manifest kept in memory is served for five minutes
\* (manifestCacheTime is Date.now(), never 0, once a manifest is kept).
GetManifest ==
  /\ deployed = "getManifest"
  /\ IF manifestCache.set /\ now - manifestCacheTime < MANIFEST_TTL
       THEN /\ reply' = [to |-> "manifest", by |-> "getManifest",
                         options |-> manifestCache.options,
                         channels |-> <<>>, stored |-> StoredNames]
            /\ UNCHANGED <<manifestCache, manifestCacheTime>>
       ELSE /\ manifestCache' = [set |-> TRUE, options |-> Stored.names]
            /\ manifestCacheTime' = now
            /\ reply' = [to |-> "manifest", by |-> "getManifest",
                         options |-> Stored.names,
                         channels |-> <<>>, stored |-> StoredNames]
  /\ UNCHANGED <<handlerVars, probeVars, otherVars, envVars, deliveries, clockVars,
                 addonInterfacePromise, deployed>>

\* Time is followed from the moment a manifest is kept: nothing else on
\* the read side reads the clock.
TimePasses ==
  /\ manifestCache.set
  /\ now + TICK <= MaxNow
  /\ now' = now + TICK
  /\ UNCHANGED <<handlerVars, probeVars, otherVars, envVars, deliveries, writtenAt,
                 previous, readVars>>

\* The forms of the read side: the interface built on every request, the
\* interface built once at module load, the manifest kept in memory.
Deployments == {"getAddonInterface", "addonInterfacePromise", "getManifest"}

\* The refresh runs with the directory source alone, and the directory
\* answers in full or not at all.
TriggerRead == TriggerWith(OverlapConfigs)

FetchSettleRead ==
  FetchSettleFrom({DirectoryTwoCountries, [DirectoryTwoCountries EXCEPT !.fetched = FALSE]},
                  Playlists)

InitRead ==
  /\ InitHandler
  /\ webhook = "up"
  /\ deployed \in Deployments

NextRead ==
  \/ TriggerRead
  \/ FetchSettleRead
  \/ Aggregate
  \/ ProbeIssueBatch
  \/ ProbeSettle
  \/ ProbeReturn
  \/ AbortEmpty
  \/ IssueWrites
  \/ WriteSettle
  \/ RespondSuccess
  \/ RespondFailed
  \/ ModuleLoad
  \/ ManifestPerRequest
  \/ DataPerRequest
  \/ ManifestMemoised
  \/ DataMemoised
  \/ GetManifest
  \/ TimePasses

SpecRead == InitRead /\ [][NextRead]_vars

(* ------------------------------------------------------------------ *)
(* Scheduled invocations, one day apart (vercel.json)                 *)
(* ------------------------------------------------------------------ *)

\* "schedule": "0 0 * * *" and "maxDuration": 60, in seconds.
CRON_PERIOD == 86400
MAX_DURATION == 60

\* A run's progress is timed in steps of STEP; MaxRuns invocations are
\* scheduled.
STEP == MAX_DURATION \div 2
MaxRuns == 2

\* Seconds since the invocation in progress was triggered.
elapsed(t) == t % CRON_PERIOD

\* The next time the schedule fires after t.
nextCron(t) == ((t \div CRON_PERIOD) + 1) * CRON_PERIOD

\* Fetching and probing take time, within the function's limit (the
\* writes that follow are taken to be instantaneous).
RunTakesTime ==
  /\ pc \in {"fetching", "probing"}
  /\ elapsed(now) + STEP <= MAX_DURATION
  /\ now' = now + STEP
  /\ UNCHANGED <<handlerVars, probeVars, otherVars, envVars, deliveries, writtenAt,
                 previous, readVars>>

\* The invocation is over; the schedule fires again and a new invocation
\* starts from nothing but the store.
NextScheduledRun ==
  /\ pc = "done"
  /\ \A w \in 1..Len(writes) : writes[w].state # "pending"
  /\ (now \div CRON_PERIOD) + 1 < MaxRuns
  /\ now' = nextCron(now)
  /\ previous' = response
  /\ pc' = "idle"
  /\ sources' = <<>>
  /\ results' = <<>>
  /\ aggregatedChannelList' = <<>>
  /\ availableCatalogs' = {}
  /\ probeNext' = 1
  /\ probeInFlight' = {}
  /\ masterChannelList' = <<>>
  /\ writes' = <<>>
  /\ alerts' = <<>>
  /\ deliveries' = <<>>
  /\ response' = "none"
  /\ cacheAtStart' = cache
  /\ directoryResponses' = NotRequested
  /\ UNCHANGED <<cache, probeVars, otherVars, request, webhook, writtenAt, readVars>>

NextSchedule ==
  \/ TriggerRead
  \/ FetchSettleRead
  \/ Aggregate
  \/ ProbeIssueBatch
  \/ ProbeSettle
  \/ ProbeReturn
  \/ AbortEmpty
  \/ IssueWrites
  \/ WriteSettle
  \/ RespondSuccess
  \/ RespondFailed
  \/ RunTakesTime
  \/ NextScheduledRun

\* Nothing has been published when the first invocation is triggered.
InitSchedule ==
  /\ Init
  /\ cache = EmptyStore

SpecSchedule == InitSchedule /\ [][NextSchedule]_vars

(* ------------------------------------------------------------------ *)
(* One invocation with two playlists whose names give the same slug   *)
(* ------------------------------------------------------------------ *)

SlugConfigs == {[valid |-> TRUE, sources |-> <<Source(MyList), Source(MyListDashed)>>]}

PlaylistOther == Playlist(<<M3uItem("Other", "", "other.png", "", "http://other")>>)

TriggerSlug == TriggerWith(SlugConfigs)

\* The directory does not answer; each playlist has one entry.
FetchSettleSlug ==
  FetchSettleFrom({[DirectoryTwoCountries EXCEPT !.fetched = FALSE]},
                  {PlaylistOne, PlaylistOther})

NextSlug ==
  \/ TriggerSlug
  \/ FetchSettleSlug
  \/ Aggregate
  \/ ProbeIssueBatch
  \/ ProbeSettle
  \/ ProbeReturn
  \/ AbortEmpty
  \/ IssueWrites
  \/ WriteSettle
  \/ RespondSuccess
  \/ RespondFailed

SpecSlug == Init /\ [][NextSlug]_vars

(* ------------------------------------------------------------------ *)
(* One invocation with each of the five directory requests on record  *)
(* ------------------------------------------------------------------ *)

DirectoryConfigs == {[valid |-> TRUE, sources |-> <<Source(MyList)>>]}

DirectoryPlaylists ==
  {[fetched |-> FALSE, isText |-> FALSE, parsed |-> FALSE, items |-> <<>>], PlaylistOne}

TriggerDirectory == TriggerWith(DirectoryConfigs)

\* Each of the five requests is fulfilled or rejected on its own.
FetchSettleDirectory ==
  FetchSettleVia({DirectoryTwoCountries}, DirectoryPlaylists, TRUE)

NextDirectory ==
  \/ TriggerDirectory
  \/ FetchSettleDirectory
  \/ Aggregate
  \/ ProbeIssueBatch
  \/ ProbeSettle
  \/ ProbeReturn
  \/ AbortEmpty
  \/ IssueWrites
  \/ WriteSettle
  \/ RespondSuccess
  \/ RespondFailed

InitDirectory ==
  /\ Init
  /\ cache = EmptyStore

SpecDirectory == InitDirectory /\ [][NextDirectory]_vars

\* The same invocation when every call settles and the handler, once the
\* promise it awaits has settled, goes on: every request it has sent is
\* answered or times out (weak fairness of the settle steps), and the
\* event loop resumes a continuation that is ready (weak fairness of the
\* handler's own steps).
Settles ==
  /\ WF_vars(FetchSettleDirectory)
  /\ WF_vars(ProbeSettle)
  /\ WF_vars(WriteSettle)

Resumes ==
  /\ WF_vars(Aggregate)
  /\ WF_vars(ProbeIssueBatch)
  /\ WF_vars(ProbeReturn)
  /\ WF_vars(AbortEmpty)
  /\ WF_vars(IssueWrites)
  /\ WF_vars(RespondSuccess)
  /\ WF_vars(RespondFailed)

SpecSettles == SpecDirectory /\ Settles /\ Resumes

(* ------------------------------------------------------------------ *)
(* One invocation with its source configuration on record             *)
(* ------------------------------------------------------------------ *)

\* CUSTOM_M3U_SOURCES_JSON is text JSON.parse rejects, or names one playlist.
JsonConfigs == {[valid |-> FALSE, sources |-> <<>>],
                [valid |-> TRUE, sources |-> <<Source(MyList)>>]}

TriggerJson ==
  \E config \in JsonConfigs, production \in BOOLEAN, authorized \in BOOLEAN :
    /\ TriggerRequest({config}, production, authorized)
    /\ request' = [production |-> production, authorized |-> authorized,
                   configValid |-> config.valid, recorded |-> TRUE]

NextJson ==
  \/ TriggerJson
  \/ FetchSettle
  \/ Aggregate
  \/ ProbeIssueBatch
  \/ ProbeSettle
  \/ ProbeReturn
  \/ AbortEmpty
  \/ IssueWrites
  \/ WriteSettle
  \/ RespondSuccess
  \/ RespondFailed

SpecJson == InitDirectory /\ [][NextJson]_vars

(* ------------------------------------------------------------------ *)
(* Properties of one invocation                                       *)
(* ------------------------------------------------------------------ *)

\* The keys this invocation wrote or tried to write.
WrittenKeys == UNION {DOMAIN writes[w].items : w \in 1..Len(writes)}

SomeVerified(c) == \E k \in 1..Len(c.streams) : c.streams[k].health = "verified"

\* C1: after a run that reports Success, every channel of the published
\* master list, of every published catalog list and of every published
\* channel_{id} entry has at least one stream whose health is verified.
C1_PublishedChannelsVerified ==
  response = "Success" =>
    /\ MASTER_CHANNEL_LIST_KEY \in WrittenKeys
    /\ \A k \in WrittenKeys :
         /\ k \in DOMAIN cache
         /\ \A i \in 1..Len(cache[k].channels) : SomeVerified(cache[k].channels[i])

\* A successful run in which filtering dropped a channel and a published
\* channel still carries a failed stream next to its verified one.
C1_Witness ==
  /\ response = "Success"
  /\ Len(masterChannelList) < Len(aggregatedChannelList)
  /\ \E i \in 1..Len(cache[MASTER_CHANNEL_LIST_KEY].channels) :
       \E k \in 1..Len(cache[MASTER_CHANNEL_LIST_KEY].channels[i].streams) :
         cache[MASTER_CHANNEL_LIST_KEY].channels[i].streams[k].health = "failed"

\* The prior store with the successful writes of this invocation applied
\* (the keys of different writes are disjoint).
StoreWithFulfilled ==
  [k \in DOMAIN cacheAtStart \cup
          UNION {DOMAIN writes[w].items :
                   w \in {w \in 1..Len(writes) : writes[w].state = "fulfilled"}} |->
     IF \E w \in 1..Len(writes) : writes[w].state = "fulfilled" /\ k \in DOMAIN writes[w].items
       THEN writes[CHOOSE w \in 1..Len(writes) :
                     writes[w].state = "fulfilled" /\ k \in DOMAIN writes[w].items].items[k]
       ELSE cacheAtStart[k]]

C4_EmptyListAborts ==
  /\ (pc \in {"filtered", "writing", "done"} /\ response # "Unauthorized"
        /\ Len(masterChannelList) = 0)
       => (writes = <<>> /\ cache = cacheAtStart)
  /\ (pc = "done" /\ response # "Unauthorized" /\ Len(masterChannelList) = 0)
       => (response = "Failed" /\ \E a \in 1..Len(alerts) : alerts[a] = <<"Cache Worker">>)

\* Every channel of a fetched source was dropped by the filter and the run
\* has answered.
C4_Witness ==
  /\ pc = "done"
  /\ response = "Failed"
  /\ Len(aggregatedChannelList) > 0
  /\ Len(masterChannelList) = 0
  /\ writes = <<>>

\* The channel without its health annotations.
Unprobed(c) ==
  [c EXCEPT !.streams = [k \in 1..Len(c.streams) |-> [c.streams[k] EXCEPT !.health = "none"]]]

\* The channels of the fulfilled fetchers from position i on, in order.
RECURSIVE FulfilledFrom(_)
FulfilledFrom(i) ==
  IF i > Len(results) THEN <<>>
  ELSE (IF results[i].status = "fulfilled" THEN results[i].value ELSE <<>>)
         \o FulfilledFrom(i + 1)

SomeRejected == \E i \in 1..Len(results) : results[i].status = "rejected"

\* C5: when one source fails and another succeeds the run still publishes:
\* the source failure alone never fails the run, the published master list
\* is exactly the health-filtered channels of the sources that succeeded,
\* and an alert is sent for each failed source.
C5_PartialFailurePublishes ==
  (pc = "done" /\ SomeRejected) =>
    /\ \A i \in 1..Len(results) :
         results[i].status = "rejected" =>
           \E a \in 1..Len(alerts) : alerts[a] = sourceNameOf(sources, i)
    /\ [j \in 1..Len(aggregatedChannelList) |-> Unprobed(aggregatedChannelList[j])]
         = FulfilledFrom(1)
    /\ response = "Failed" =>
         \/ \A j \in 1..Len(aggregatedChannelList) : ~SomeVerified(aggregatedChannelList[j])
         \/ \E w \in 1..Len(writes) : writes[w].state = "rejected"
    /\ response = "Success" =>
         cache[MASTER_CHANNEL_LIST_KEY].channels
           = SelectSeq(aggregatedChannelList, SomeVerified)

\* The directory failed, the playlist succeeded, and the run published.
C5_Witness ==
  /\ response = "Success"
  /\ Len(results) = 2
  /\ results[1].status = "rejected"
  /\ results[2].status = "fulfilled"
  /\ Len(cache[MASTER_CHANNEL_LIST_KEY].channels) > 0

\* C6: after a successful run the names in the published catalog index are
\* exactly the catalog names with at least one published channel: every name
\* of the index has a non-empty catalog_{name} list written by the run, and
\* every catalog_{name} list written by the run has its name in the index.
C6_IndexMatchesCatalogs ==
  response = "Success" =>
    LET index == cache[AVAILABLE_CATALOGS_KEY].names
        written == {k \in WrittenKeys : k.kind = "catalog_"}
        master == cache[MASTER_CHANNEL_LIST_KEY].channels
    IN /\ AVAILABLE_CATALOGS_KEY \in WrittenKeys
       /\ Range(index) = {k.name : k \in written}
       /\ \A k \in written : Len(cache[k].channels) > 0
       /\ Range(index) =
            {catalogName(master[i]) :
               i \in {i \in 1..Len(master) : Truthy(catalogName(master[i]))}}

\* A successful run in which a catalog collected before filtering lost all
\* its channels and is left out of the index.
C6_Witness ==
  /\ response = "Success"
  /\ \E c \in availableCatalogs : c \notin Range(cache[AVAILABLE_CATALOGS_KEY].names)
  /\ cache[AVAILABLE_CATALOGS_KEY].names # <<>>

\* C7: a run reports Success only if the batched per-channel write, every
\* per-catalog write, the master-list write and the index write all
\* succeeded; if any one of them fails the run reports Failed and alerts.
C7_SuccessOnlyIfAllWritesSucceed ==
  /\ response = "Success" =>
       /\ \A w \in 1..Len(writes) : writes[w].state = "fulfilled"
       /\ \A i \in 1..Len(masterChannelList) :
            /\ ChannelKey(masterChannelList[i].id) \in WrittenKeys
            /\ Truthy(catalogName(masterChannelList[i])) =>
                 CatalogKey(catalogName(masterChannelList[i])) \in WrittenKeys
       /\ {MASTER_CHANNEL_LIST_KEY, AVAILABLE_CATALOGS_KEY} \subseteq WrittenKeys
  /\ (pc = "done" /\ \E w \in 1..Len(writes) : writes[w].state = "rejected") =>
       /\ response = "Failed"
       /\ \E a \in 1..Len(alerts) : alerts[a] = <<"Cache Writer">>

\* Exactly one write failed, all the others succeeded, and the run failed.
C7_Witness ==
  /\ pc = "done"
  /\ response = "Failed"
  /\ Cardinality({w \in 1..Len(writes) : writes[w].state = "rejected"}) = 1
  /\ Cardinality({w \in 1..Len(writes) : writes[w].state = "fulfilled"}) = Len(writes) - 1

\* C8: after a run reports Success, every pipeline-produced key readable in
\* the cache holds the value computed by that run; no channel_{id} or
\* catalog_{name} entry of an earlier run remains readable.
C8_SuccessSupersedesOldKeys ==
  response = "Success" =>
    \A k \in DOMAIN cache :
      \E w \in 1..Len(writes) : k \in DOMAIN writes[w].items /\ cache[k] = writes[w].items[k]

(* ------------------------------------------------------------------ *)
(* Properties of the normalizer and of probeStreamHealth              *)
(* ------------------------------------------------------------------ *)

\* C2: the ids assigned by the normalizer are pairwise distinct across the
\* whole aggregated channel list, within a source and across sources.
C2_IdsPairwiseDistinct ==
  \A i, j \in 1..Len(aggregatedChannelList) :
    i # j => aggregatedChannelList[i].id # aggregatedChannelList[j].id

\* C9: a stream whose probe answers with a status in [200,400) is classified
\* verified; a stream whose probe answers any other status, times out or
\* fails to connect is classified failed.
C9_ProbeClassification ==
  \A k \in 1..Len(psSample) :
    k \notin psPending =>
      psSample[k].health =
        (IF /\ psSample[k].outcome.kind = "status"
            /\ psSample[k].outcome.status >= 200
            /\ psSample[k].outcome.status < 400
           THEN "verified" ELSE "failed")

\* C10: after probing, the verdict written by each probe is the health of
\* the stream held in the original channel's streams list.
C10_VerdictVisibleOnOriginal ==
  psPc = "returned" =>
    \A k \in 1..Len(psSample) :
      psChannels[psSample[k].origin.c].streams[psSample[k].origin.s].health
        = psSample[k].health

\* C11: when probing returns, every stream of every input channel has been
\* probed and carries a verdict of verified or failed.
C11_EveryStreamCarriesVerdict ==
  psPc = "returned" =>
    \A c \in 1..Len(psChannels) :
      \A s \in 1..Len(psChannels[c].streams) :
        /\ \E k \in 1..Len(psSample) :
             psSample[k].origin = [c |-> c, s |-> s] /\ k \notin psPending
        /\ psChannels[c].streams[s].health \in {"verified", "failed"}

(* ------------------------------------------------------------------ *)
(* Concurrency and ordering of one invocation                         *)
(* ------------------------------------------------------------------ *)

\* The batch a stream of the working list belongs to.
BatchOf(k) == (k - 1) \div BATCH_SIZE

\* The health of the k-th stream of the working list.
StreamHealth(k) ==
  LET ref == flatten(aggregatedChannelList)[k]
  IN aggregatedChannelList[ref.c].streams[ref.s].health

\* C12: during health probing the probes in flight never exceed the batch
\* size and all belong to one batch, and a probe is issued only when every
\* probe of the preceding batches has settled.
C12_BatchesBoundedAndSequential ==
  /\ [](/\ Cardinality(probeInFlight) <= BATCH_SIZE
        /\ \A j, k \in probeInFlight : BatchOf(j) = BatchOf(k))
  /\ [][\A k \in probeInFlight' \ probeInFlight :
          \A j \in 1..Len(flatten(aggregatedChannelList)) :
            BatchOf(j) < BatchOf(k) =>
              (j \notin probeInFlight /\ StreamHealth(j) # "none")]_vars

\* A probe of the second batch is in flight after the full first batch
\* has settled.
C12_Witness ==
  /\ pc = "probing"
  /\ probeInFlight # {}
  /\ \A k \in probeInFlight : BatchOf(k) = 1
  /\ \A j \in 1..BATCH_SIZE : StreamHealth(j) # "none"

\* C13: whatever the probes meet, probing never raises to its caller: a
\* failing probe only sets health = failed on its own stream object, every
\* other stream object is left as it was, and probing returns only when
\* every probe has run to completion.
C13_ProbingNeverRaises ==
  /\ [](psPc # "thrown")
  /\ [](\A k \in 1..Len(psSample) :
          (k \notin psPending /\ ~headResolves(psSample[k].outcome)) =>
            (psSample[k].health = "failed" /\ psSample[k].promise = "fulfilled"))
  /\ [](psPc = "returned" =>
          \A k \in 1..Len(psSample) : psSample[k].promise # "pending")
  /\ [][psPc = "probing" =>
          \A k \in 1..Len(psSample) :
            psSample'[k] # psSample[k] =>
              /\ k \in psPending
              /\ \A j \in 1..Len(psSample) : j # k => psSample'[j] = psSample[j]]_vars

\* Probing has returned after one probe timed out, one met an error status
\* and one was answered 200.
C13_Witness ==
  /\ psPc = "returned"
  /\ \E k \in 1..Len(psSample) :
       psSample[k].outcome = TimeoutOutcome /\ psSample[k].health = "failed"
  /\ \E k \in 1..Len(psSample) :
       psSample[k].outcome = StatusOutcome(500) /\ psSample[k].health = "failed"
  /\ \E k \in 1..Len(psSample) :
       psSample[k].outcome = StatusOutcome(200) /\ psSample[k].health = "verified"

\* The number of alerts sent under a source name.
AlertCount(name) == Cardinality({a \in 1..Len(alerts) : alerts[a] = name})

\* The fetchers that were rejected and run under a source name.
RejectedWithName(name) ==
  {i \in 1..Len(results) :
     results[i].status = "rejected" /\ sourceNameOf(sources, i) = name}

\* C14: the directory fetcher and one fetcher per configured source are
\* started; a fetcher that has settled keeps its result whatever the others
\* do; aggregation starts only when every fetcher has settled; and the alerts
\* sent under a source's name are one per failed fetcher of that name, none
\* for a fetcher that succeeded.
C14_AllFetchersSettleOneAlertEach ==
  /\ [](pc = "fetching" =>
          (Len(results) = 1 + Len(sources) /\ alerts = <<>>))
  /\ []((pc \notin {"idle", "fetching"} /\ response # "Unauthorized") =>
          /\ Len(results) = 1 + Len(sources)
          /\ \A i \in 1..Len(results) : results[i].status # "pending"
          /\ \A i \in 1..Len(results) :
               AlertCount(sourceNameOf(sources, i))
                 = Cardinality(RejectedWithName(sourceNameOf(sources, i))))
  /\ [][pc = "fetching" =>
          \A i \in 1..Len(results) :
            results[i].status # "pending" => results'[i] = results[i]]_vars

\* The playlist fetcher failed, the directory fetcher succeeded, and the
\* only alert of the run so far is the playlist's.
C14_Witness ==
  /\ pc = "probing"
  /\ Len(results) = 2
  /\ results[1].status = "fulfilled"
  /\ results[2].status = "rejected"
  /\ alerts = <<sources[1].name>>

\* C15: no cache write of a run is issued (and so no key is changed) before
\* every fetcher has settled, every stream of the aggregated list has been
\* probed, and the list has been filtered.
C15_WritesAfterFetchAndProbe ==
  (writes # <<>> \/ cache # cacheAtStart) =>
    /\ \A i \in 1..Len(results) : results[i].status # "pending"
    /\ probeInFlight = {}
    /\ probeNext > Len(flatten(aggregatedChannelList))
    /\ \A k \in 1..Len(flatten(aggregatedChannelList)) : StreamHealth(k) # "none"
    /\ masterChannelList = filterVerified(aggregatedChannelList)

\* The writes have just been issued, none has settled, after two batches of
\* probes and a filter that dropped a channel.
C15_Witness ==
  /\ pc = "writing"
  /\ \A w \in 1..Len(writes) : writes[w].state = "pending"
  /\ Len(flatten(aggregatedChannelList)) > BATCH_SIZE
  /\ Len(masterChannelList) < Len(aggregatedChannelList)

\* The value this invocation computed for a key it writes.
NewValue(k) ==
  writes[CHOOSE w \in 1..Len(writes) : k \in DOMAIN writes[w].items].items[k]

\* C16: at every point of the write phase, whichever writes have settled,
\* each key holds either the complete value it had before the run or the
\* complete value the run computed for it, no key of the earlier run is
\* lost, and every value the run computed is made of channels of the one
\* filtered list.
C16_EachKeyOldOrNew ==
  /\ \A k \in DOMAIN cacheAtStart \cup DOMAIN cache :
       /\ k \in DOMAIN cache
       /\ \/ k \in DOMAIN cacheAtStart /\ cache[k] = cacheAtStart[k]
          \/ k \in WrittenKeys /\ cache[k] = NewValue(k)
  /\ \A k \in WrittenKeys :
       /\ Range(NewValue(k).channels) \subseteq Range(masterChannelList)
       /\ Range(NewValue(k).names) \subseteq
            {catalogName(masterChannelList[i]) : i \in 1..Len(masterChannelList)}
  /\ MASTER_CHANNEL_LIST_KEY \in WrittenKeys =>
       NewValue(MASTER_CHANNEL_LIST_KEY).channels = masterChannelList

\* In the middle of the write phase: the index is already the new one, the
\* master list is still the old one and differs from the one being written.
C16_Witness ==
  /\ pc = "writing"
  /\ \E w \in 1..Len(writes) : writes[w].state = "pending"
  /\ MASTER_CHANNEL_LIST_KEY \in DOMAIN cacheAtStart
  /\ cache[MASTER_CHANNEL_LIST_KEY] = cacheAtStart[MASTER_CHANNEL_LIST_KEY]
  /\ cache[MASTER_CHANNEL_LIST_KEY] # NewValue(MASTER_CHANNEL_LIST_KEY)
  /\ cache[AVAILABLE_CATALOGS_KEY] = NewValue(AVAILABLE_CATALOGS_KEY)
  /\ cache[AVAILABLE_CATALOGS_KEY] # cacheAtStart[AVAILABLE_CATALOGS_KEY]

\* The keys the second invocation wrote or tried to write, and its values.
OtherWrittenKeys == UNION {DOMAIN otherWrites[w].items : w \in 1..Len(otherWrites)}

OtherNewValue(k) ==
  otherWrites[CHOOSE w \in 1..Len(otherWrites) :
                k \in DOMAIN otherWrites[w].items].items[k]

\* C17: overlapping runs are not guarded.  Each of two runs whose write
\* phases overlap answers by its own writes alone (Success exactly when all
\* of them succeeded, whatever the other run wrote in between), and once both
\* have reported Success every key either of them wrote holds the value of
\* one of the two runs, key by key, not of one run as a whole.
C17_OverlapUnguarded ==
  /\ (pc = "done" /\ writes # <<>>) => (response = "Success" <=> allFulfilled(writes))
  /\ otherPc = "done" => (otherResponse = "Success" <=> allFulfilled(otherWrites))
  /\ (response = "Success" /\ otherResponse = "Success") =>
       \A k \in WrittenKeys \cup OtherWrittenKeys :
         /\ k \in DOMAIN cache
         /\ \/ k \in WrittenKeys /\ cache[k] = NewValue(k)
            \/ k \in OtherWrittenKeys /\ cache[k] = OtherNewValue(k)

\* Both runs have reported Success; the master list in the cache is the
\* first run's and not the second's, the catalog index is the second run's
\* and not the first's.
C17_Witness ==
  /\ response = "Success"
  /\ otherResponse = "Success"
  /\ cache[MASTER_CHANNEL_LIST_KEY] = NewValue(MASTER_CHANNEL_LIST_KEY)
  /\ cache[MASTER_CHANNEL_LIST_KEY] # OtherNewValue(MASTER_CHANNEL_LIST_KEY)
  /\ cache[AVAILABLE_CATALOGS_KEY] = OtherNewValue(AVAILABLE_CATALOGS_KEY)
  /\ cache[AVAILABLE_CATALOGS_KEY] # NewValue(AVAILABLE_CATALOGS_KEY)

\* C18: an invocation in production without the credential is answered
\* Unauthorized and has started no fetcher, issued no probe, sent no alert
\* and issued no cache write, then or later.
C18_UnauthorizedDoesNothing ==
  (request.recorded /\ request.production /\ ~request.authorized) =>
    /\ response = "Unauthorized"
    /\ pc = "done"
    /\ sources = <<>>
    /\ results = <<>>
    /\ aggregatedChannelList = <<>>
    /\ probeNext = 1
    /\ probeInFlight = {}
    /\ alerts = <<>>
    /\ writes = <<>>
    /\ cache = cacheAtStart

\* A rejected invocation while an earlier publication is in the cache.
C18_Witness ==
  /\ request.recorded
  /\ request.production
  /\ ~request.authorized
  /\ response = "Unauthorized"
  /\ MASTER_CHANNEL_LIST_KEY \in DOMAIN cache

\* The items of a list of writes, without their settlement.
ItemsOf(ws) == [w \in 1..Len(ws) |-> ws[w].items]

\* C19: whatever becomes of the alerts (delivered, failed, skipped), the
\* alert operation never raises, and the answer of an authorized run and
\* the writes it issues are those fixed by the fetched and probed list and
\* by the outcome of the writes alone.
C19_AlertsNeverChangeOutcome ==
  /\ response # "Crashed"
  /\ Len(deliveries) = Len(alerts)
  /\ (pc \in {"writing", "done"} /\ response # "Unauthorized") =>
       ItemsOf(writes) =
         (IF Len(masterChannelList) = 0 THEN <<>>
          ELSE ItemsOf(cachePromises(aggregatedChannelList, masterChannelList,
                                     availableCatalogs)))
  /\ (pc = "done" /\ response # "Unauthorized") =>
       response = (IF Len(masterChannelList) > 0 /\ allFulfilled(writes)
                     THEN "Success" ELSE "Failed")

\* The alert for a failed source could not be delivered, a write failed
\* afterwards, and the alert for that was delivered: the run answers Failed
\* as it would have with both alerts delivered.
C19_Witness ==
  /\ pc = "done"
  /\ response = "Failed"
  /\ deliveries = <<"failed", "delivered">>
  /\ Len(masterChannelList) > 0

\* The catalog key by where the channel came from: the country name for a
\* channel of the directory fetcher (results[1]), the source name for a
\* channel of the fetcher of a configured playlist.
KeyByOrigin(i, channel) ==
  IF i = 1 THEN channel.country ELSE sourceNameOf(sources, i)

\* C20: after a successful run, every published channel that came from a
\* playlist is in the catalog_{source name} list, and every published
\* channel that came from the directory and has a country name is in the
\* catalog_{country name} list.
C20_CatalogKeyByOrigin ==
  response = "Success" =>
    \A i \in 1..Len(results) :
      results[i].status = "fulfilled" =>
        \A j \in 1..Len(results[i].value) :
          \A m \in 1..Len(masterChannelList) :
            (Unprobed(masterChannelList[m]) = results[i].value[j]
               /\ Truthy(KeyByOrigin(i, results[i].value[j]))) =>
              /\ CatalogKey(KeyByOrigin(i, results[i].value[j])) \in DOMAIN cache
              /\ \E n \in 1..Len(cache[CatalogKey(KeyByOrigin(i, results[i].value[j]))].channels) :
                   cache[CatalogKey(KeyByOrigin(i, results[i].value[j]))].channels[n]
                     = masterChannelList[m]

(* ------------------------------------------------------------------ *)
(* Properties of the fetchers and of the normalizer                   *)
(* ------------------------------------------------------------------ *)

\* C21: every channel returned by a fetcher has a non-empty streams list,
\* and every stream of that list has a non-empty url.
C21_StreamsNonEmptyWithUrl ==
  \A i \in 1..Len(results) :
    results[i].status = "fulfilled" =>
      \A j \in 1..Len(results[i].value) :
        /\ Len(results[i].value[j].streams) > 0
        /\ \A k \in 1..Len(results[i].value[j].streams) :
             results[i].value[j].streams[k].url # ""

\* C22: every channel a fetcher returns has a non-empty name, a logo and at
\* least one category.
C22_NameLogoCategoryPresent ==
  \A i \in 1..Len(results) :
    results[i].status = "fulfilled" =>
      \A j \in 1..Len(results[i].value) :
        /\ results[i].value[j].name # ""
        /\ results[i].value[j].logo # ""
        /\ Len(results[i].value[j].categories) >= 1

(* ------------------------------------------------------------------ *)
(* Properties of what a successful run reports and publishes          *)
(* ------------------------------------------------------------------ *)

\* C23: on Success the reported channel count is the number of channels of
\* the master list in the cache, and the reported catalog count is the
\* number of names of the catalog index in the cache.
C23_ReportedCountsMatchCache ==
  response = "Success" =>
    /\ successBody(masterChannelList, availableCatalogs).channels
         = Len(cache[MASTER_CHANNEL_LIST_KEY].channels)
    /\ successBody(masterChannelList, availableCatalogs).catalogs
         = Len(cache[AVAILABLE_CATALOGS_KEY].names)

\* The run was given the upstream data and the stream reachability of the
\* earlier run whose publication it found in the cache.
SameAsEarlierRun ==
  /\ MASTER_CHANNEL_LIST_KEY \in DOMAIN cacheAtStart
  /\ sources = <<Source(MyList)>>
  /\ results = <<processIptvOrgSource(DirectoryTwoCountries),
                 processCustomM3uSource(Source(MyList), PlaylistOne)>>
  /\ aggregatedChannelList = EarlierOutput

C25_IndexSortedNoDuplicates ==
  response = "Success" =>
    LET index == cache[AVAILABLE_CATALOGS_KEY].names
    IN \A i, j \in 1..Len(index) : i < j => StrLess(index[i], index[j])

\* A published index of three names whose channels were aggregated in
\* another order than the index lists them (US, FR, then the playlist).
C25_Witness ==
  /\ response = "Success"
  /\ cache[AVAILABLE_CATALOGS_KEY].names = <<FR, MyList, US>>
  /\ aggregatedChannelList[1].country = US
  /\ aggregatedChannelList[2].country = FR

\* The urls of the entries of the stream list of `data` whose channel is id.
UrlsOf(data, id) ==
  LET mine == SelectSeq(data.streams, LAMBDA e : e.channel = id)
  IN [i \in 1..Len(mine) |-> mine[i].url]

\* The urls a returned channel carries.
UrlsCarried(channel) == [k \in 1..Len(channel.streams) |-> channel.streams[k].url]

\* The channels of `data` a returned channel can stem from.
RawOf(data, channel) ==
  {i \in 1..Len(data.channels) :
     normalizeChannelId(data.channels[i], IPTV_ORG, TemplateStr(data.channels[i].id))
       = channel.id}

BadLists(data) ==
  \/ ~data.channelsIsArray \/ Len(data.channels) = 0
  \/ ~data.streamsIsArray \/ Len(data.streams) = 0

NoListReasons ==
  {"No channels received from iptv-org API", "No streams received from iptv-org API"}

\* C27: whenever the channel list or the stream list received is empty or
\* is not a list, the directory fetcher is rejected; the run then aggregates
\* no directory channel and alerts under the directory's name.
C27_BadListsFailDirectory ==
  /\ \A data \in Directories :
       (pc = "idle" /\ data.fetched /\ BadLists(data)) =>
         /\ processIptvOrgSource(data).status = "rejected"
         /\ processIptvOrgSource(data).value = <<>>
         /\ processIptvOrgSource(data).reason \in NoListReasons
  /\ (Len(results) > 0 /\ results[1].reason \in NoListReasons) =>
       /\ results[1].status = "rejected"
       /\ pc \notin {"idle", "fetching"} =>
            /\ \A j \in 1..Len(aggregatedChannelList) :
                 aggregatedChannelList[j].source # IPTV_ORG
            /\ AlertCount(IPTV_ORG) = 1

\* The stream list was missing, the playlist was fetched, and the run
\* published the playlist's channels alone.
C27_Witness ==
  /\ response = "Success"
  /\ results[1].reason = "No streams received from iptv-org API"
  /\ Len(masterChannelList) > 0

(* ------------------------------------------------------------------ *)
(* Properties of the read side                                        *)
(* ------------------------------------------------------------------ *)

\* The genre options of a manifest other than All.
ListedGenres(options) == SelectSeq(options, LAMBDA g : g # All)

\* What a reply of the per-request interface shows is what the store held.
PerRequestRepliesShowStore ==
  deployed = "getAddonInterface" =>
    /\ reply.to = "manifest" => ListedGenres(reply.options) = reply.stored.names
    /\ reply.to \in Resources => reply.channels = reply.stored.channels

\* C28: for every request, the genre options of the manifest and the
\* channel data the catalog, meta and stream handlers use are the ones the
\* store held when the request was made (so a refresh that completed
\* before the request shows in the reply).
C28_RepliesShowStoreAtRequest ==
  /\ reply.to = "manifest" => ListedGenres(reply.options) = reply.stored.names
  /\ reply.to \in Resources => reply.channels = reply.stored.channels

\* The genres a client can send: the catalog names of the model and the
\* name of the directory source.
Genres == {US, FR, MyList, MyListDashed, IPTV_ORG}

\* The answer of the catalog handler that reads catalog_{genre}.
ByKey(genre) == Range(metas(fastPath(cache, writtenAt, now, genre)))

\* The answer of the catalog handler that filters the master list.
ByFilter(genre) ==
  Range(metas(masterListFilter(
    getFromCache(cache, writtenAt, now, MASTER_CHANNEL_LIST_KEY).channels, genre)))

\* The genres the published catalog index lists.
PublishedGenres ==
  Range(getFromCache(cache, writtenAt, now, AVAILABLE_CATALOGS_KEY).names)

\* C30 as stated: after a run that reports Success, for every genre other
\* than All the handler that reads catalog_{genre} returns the same set of
\* channels as the handler that filters the master list.
C30_FastPathEqualsFilter ==
  response = "Success" => \A genre \in Genres : ByKey(genre) = ByFilter(genre)

\* C30, amended: after a run that reports Success, the two handlers return
\* the same set of channels for every genre the published catalog index
\* lists.
C30_FastPathEqualsFilterForListedGenres ==
  response = "Success" =>
    \A genre \in PublishedGenres : ByKey(genre) = ByFilter(genre)

\* A published run with two genres, each a proper, non-empty part of the
\* master list.
C30_Witness ==
  /\ response = "Success"
  /\ Cardinality(PublishedGenres) >= 2
  /\ \A genre \in PublishedGenres :
       /\ ByKey(genre) # {}
       /\ ByKey(genre) # ByFilter(All)

(* ------------------------------------------------------------------ *)
(* Properties of the schedule                                         *)
(* ------------------------------------------------------------------ *)

SetInCacheKeys == {k \in DOMAIN cache : cache[k].ex # 0}

\* C29: with the schedule as configured, a key that setInCache wrote in a
\* successful run is still in the store when the next scheduled run sets
\* it again, and from that success until the next run is over a reader
\* finds the master list and the catalog index.
C29_KeysOutliveSchedule ==
  /\ [][previous = "Success" =>
         \A k \in SetInCacheKeys :
           (k \in DOMAIN writtenAt /\ writtenAt'[k] # writtenAt[k]) =>
             present(cache, writtenAt, now, k)]_vars
  /\ []((previous = "Success" /\ pc # "done") =>
          /\ present(cache, writtenAt, now, MASTER_CHANNEL_LIST_KEY)
          /\ present(cache, writtenAt, now, AVAILABLE_CATALOGS_KEY))

\* The first run wrote after STEP seconds and reported Success; the next
\* one is about to write after MAX_DURATION seconds: the master list has
\* expired.
C29_ExpiredBeforeOverwrite ==
  /\ previous = "Success"
  /\ pc = "writing"
  /\ now = CRON_PERIOD + MAX_DURATION
  /\ MASTER_CHANNEL_LIST_KEY \in DOMAIN writtenAt
  /\ writtenAt[MASTER_CHANNEL_LIST_KEY] = STEP
  /\ ~present(cache, writtenAt, now, MASTER_CHANNEL_LIST_KEY)

(* ------------------------------------------------------------------ *)
(* Properties of the published keys as the read side sees them        *)
(* ------------------------------------------------------------------ *)

\* Ids that no run of the model publishes.
UnpublishedIds == {ID_PREFIX \o <<"n", "o", "n", "e">>, <<>>}

\* C31: after a run that reports Success, for every channel c of its
\* output the meta handler called with c.id finds c under channel_{c.id}
\* and returns a meta with c's id, name and poster; for an id no run has
\* published it returns null.
C31_PointLookupRoundTrips ==
  response = "Success" =>
    /\ \A i \in 1..Len(masterChannelList) :
         /\ getFromCache(cache, writtenAt, now,
                         ChannelKey(masterChannelList[i].id)).channels
              = <<masterChannelList[i]>>
         /\ metaHandler(cache, writtenAt, now, masterChannelList[i].id)
              = metaOf(masterChannelList[i])
    /\ \A id \in UnpublishedIds : metaHandler(cache, writtenAt, now, id) = NoMeta

\* The catalog_{name} keys a reader finds, and the channels of one of them.
CatalogKeysIn(keys) == {k \in keys : k.kind = "catalog_"}

CatalogList(k) == getFromCache(cache, writtenAt, now, k).channels

\* The channels of the catalog lists `keys` are in the stored master list
\* and under their channel_{id} keys with the same content, and no channel
\* is in two of the lists.
CatalogsAgree(keys) ==
  /\ \A k \in keys : \A i \in 1..Len(CatalogList(k)) :
       LET c == CatalogList(k)[i]
       IN /\ c \in Range(Stored.channels)
          /\ getFromCache(cache, writtenAt, now, ChannelKey(c.id)).channels = <<c>>
  /\ \A k1, k2 \in keys :
       k1 # k2 =>
         {CatalogList(k1)[i].id : i \in 1..Len(CatalogList(k1))}
           \cap {CatalogList(k2)[i].id : i \in 1..Len(CatalogList(k2))} = {}

\* C32: after a run that reports Success, every channel stored in any
\* catalog_{name} list is also in the master list and under its
\* channel_{id} key with the same content, and no channel is in more than
\* one catalog list.
C32_CatalogsAgreeWithMasterAndKeys ==
  response = "Success" => CatalogsAgree(CatalogKeysIn(DOMAIN cache))

\* The same for the catalog lists this run wrote.
WrittenCatalogsAgree ==
  response = "Success" => CatalogsAgree(CatalogKeysIn(WrittenKeys))

\* C33: every channel id the fetchers return begins with a prefix that
\* the manifest declares in idPrefixes, and so does the id of every
\* channel a successful run publishes (master list and channel_{id} keys).
C33_IdsCarryManifestPrefix ==
  /\ pc = "fetching" =>
       \A i \in 1..Len(results) :
         results[i].status = "fulfilled" =>
           \A j \in 1..Len(results[i].value) : addressable(results[i].value[j].id)
  /\ response = "Success" =>
       /\ \A c \in Range(Stored.channels) : addressable(c.id)
       /\ \A k \in WrittenKeys : k.kind = "channel_" => addressable(k.name)

\* A run published a directory channel and a playlist channel.
C33_Witness ==
  /\ response = "Success"
  /\ \E c \in Range(Stored.channels) : c.source = IPTV_ORG /\ ChannelKey(c.id) \in WrittenKeys
  /\ \E c \in Range(Stored.channels) : c.source # IPTV_ORG /\ ChannelKey(c.id) \in WrittenKeys

\* C34: every stream of every channel a fetcher returns (directory or
\* playlist) has health = unverified before probing starts.
C34_StreamsStartUnverified ==
  pc \in {"fetching", "probing"} =>
    \A i \in 1..Len(results) :
      results[i].status = "fulfilled" =>
        \A j \in 1..Len(results[i].value) :
          \A k \in 1..Len(results[i].value[j].streams) :
            results[i].value[j].streams[k].health = "unverified"

(* ------------------------------------------------------------------ *)
(* Properties of the fetch phase                                      *)
(* ------------------------------------------------------------------ *)

SomeRequestRejected == \E r \in DirectoryRequests : directoryResponses[r] = "rejected"

FromDirectory(list) == SelectSeq(list, LAMBDA c : c.source = IPTV_ORG)

\* C35: when one of the five directory requests fails, the directory
\* fetcher is rejected and no channel of the run comes from it, while each
\* playlist fetcher settles as its own playlist makes it and its channels
\* are aggregated.
C35_OneRequestFailsDirectoryOnly ==
  SomeRequestRejected =>
    /\ results[1].status = "rejected"
    /\ FromDirectory(aggregatedChannelList) = <<>>
    /\ FromDirectory(masterChannelList) = <<>>
    /\ FromDirectory(Stored.channels) = <<>>
    /\ \A i \in 2..Len(results) :
         results[i].status # "pending" =>
           \E doc \in DirectoryPlaylists :
             results[i] = processCustomM3uSource(sources[i - 1], doc)
    /\ pc \notin {"idle", "fetching"} =>
         [c \in 1..Len(aggregatedChannelList) |-> Unprobed(aggregatedChannelList[c])]
           = FulfilledFrom(2)

\* Only the blocklist request failed, and the run published the playlist.
C35_Witness ==
  /\ directoryResponses = [AllResponses(TRUE) EXCEPT !["blocklist"] = "rejected"]
  /\ response = "Success"
  /\ Len(Stored.channels) > 0

\* The run that is recorded passed the credential test and found a source
\* configuration that is not valid JSON.
InvalidConfigRun ==
  /\ request.recorded
  /\ ~request.configValid
  /\ ~mustReject(request.production, request.authorized)

\* C36: when the source configuration is not valid JSON the run goes on:
\* no playlist fetcher is started and the directory fetcher is; the run
\* fails only as any run does (nothing left to publish, or a write
\* fails), and with Success the published list is the health-filtered
\* directory list.
C36_InvalidConfigKeepsDirectory ==
  InvalidConfigRun =>
    /\ sources = <<>>
    /\ Len(results) = 1
    /\ response \in {"none", "Success", "Failed"}
    /\ response = "Failed" =>
         \/ isEmptyBeforeWrite(aggregatedChannelList, masterChannelList)
         \/ anyRejected(writes)
    /\ response = "Success" =>
         /\ results[1].status = "fulfilled"
         /\ Len(Stored.channels) > 0
         /\ Stored.channels = filterVerified(aggregatedChannelList)
         /\ [c \in 1..Len(aggregatedChannelList) |-> Unprobed(aggregatedChannelList[c])]
              = results[1].value

\* Such a run published both directory channels.
C36_Witness ==
  /\ InvalidConfigRun
  /\ response = "Success"
  /\ Len(Stored.channels) = 2

(* ------------------------------------------------------------------ *)
(* Progress of one invocation                                         *)
(* ------------------------------------------------------------------ *)

Responses == {"Unauthorized", "Success", "Failed"}

================================================================
